---- MODULE Spec2Model ----
(***************************************************************************)
(* Model of the analyzer thread of bpm-sniffer (src-tauri/src/capture.rs,  *)
(* run_capture) together with the reset_backend command                    *)
(* (src-tauri/src/commands.rs).                                            *)
(*                                                                         *)
(* Units.  f32 quantities are fixed-point integers:                        *)
(*   tempo values        tenths of a BPM        (128.4 BPM  = 1284)        *)
(*   confidences, level  hundredths             (0.95       = 95)          *)
(*   RMS, noise floor    1e-5 of full scale     (0.1        = 10000)       *)
(*   loudness            whole dB (floor)                                  *)
(*   time                milliseconds                                      *)
(* Option<T> is a sequence of length 0 (None) or 1 (Some(v)).              *)
(* The estimator (backend.process) is an input of the hop: its result is   *)
(* drawn from bounded sets by the next-state relation.                     *)
(***************************************************************************)
EXTENDS Integers, Sequences, FiniteSets, TLC

\* ------------------------------------------------------------------ bounds
MaxHops == 2
MaxStalls == 1
MaxResets == 1
MaxSrChanges == 1
MaxFoldHops == 1
MaxLockHops == 7
MaxRunHops == 5
MaxGateHops == 3
MaxEventHops == 9
MaxEvents == 1
MaxResetCalls == 2
MaxResetHops == 4
MaxStallNow == 3200
MaxBuffers == 18
BufLen == 3
MaxCalls == 3
MaxStartHops == 5
MaxWindowHops == 3
MaxSnapHops == 4
MaxAnchorHops == 4
MaxHarmHops == 4

\* --------------------------------------------------------------- constants
HiTh == 40
LoTh == 25
NoneLimit == 6
QueueTimeoutMs == 20
StallMs == 1500
StableWinMs == 1500
FastRelockMs == 2000
LockExpireMs == 10000
InitSampleRate == 4
InitNoiseFloor == 1000
ConfCap == 95
SilenceLevel == 3
QueueCap == 16

\* ----------------------------------------------------------------- helpers
None == << >>
Some(v) == << v >>
IsSome(o) == Len(o) = 1
IsNone(o) == Len(o) = 0
Get(o) == o[1]

Abs(x) == IF x < 0 THEN -x ELSE x
Min(a, b) == IF a < b THEN a ELSE b
Max(a, b) == IF a < b THEN b ELSE a
Clamp(x, lo, hi) == IF x < lo THEN lo ELSE IF x > hi THEN hi ELSE x
\* division truncating toward zero, as f32 -> integer quantisation of a product
TDiv(a, b) == IF a >= 0 THEN a \div b ELSE -((-a) \div b)
\* a counter that does not count
SatInc8Stuck(x) == x
\* u8::saturating_add(1)
SatInc8(x) == IF x >= 255 THEN 255 ELSE x + 1
\* f32::round() of a tempo in tenths, as an integer BPM (half away from zero)
RoundBpm(d) == IF d >= 0 THEN (d + 5) \div 10 ELSE -((-d + 5) \div 10)

\* x.powf(0.9) on hundredths, x in 0..0.90
Pow09Table == << 0, 2, 3, 4, 6, 7, 8, 9, 10, 11, 13, 14, 15, 16, 17, 18, 19, 20,
  21, 22, 23, 25, 26, 27, 28, 29, 30, 31, 32, 33, 34, 35, 36, 37, 38, 39, 40,
  41, 42, 43, 44, 45, 46, 47, 48, 49, 50, 51, 52, 53, 54, 55, 56, 56, 57, 58,
  59, 60, 61, 62, 63, 64, 65, 66, 67, 68, 69, 70, 71, 72, 73, 73, 74, 75, 76,
  77, 78, 79, 80, 81, 82, 83, 84, 85, 85, 86, 87, 88, 89, 90, 91 >>
Pow09(c) == Pow09Table[Clamp(c, 0, 90) + 1]

\* least RMS (1e-5 units) whose loudness reaches -81+i dB, i = 1..81
DbThr == << 10, 12, 13, 15, 16, 18, 20, 23, 26, 29, 32, 36, 40, 45, 51, 57, 64,
  71, 80, 90, 100, 113, 126, 142, 159, 178, 200, 224, 252, 282, 317, 355, 399,
  447, 502, 563, 631, 708, 795, 892, 1000, 1123, 1259, 1413, 1585, 1779, 1996,
  2239, 2512, 2819, 3163, 3549, 3982, 4467, 5012, 5624, 6310, 7080, 7944, 8913,
  10000, 11221, 12590, 14126, 15849, 17783, 19953, 22388, 25119, 28184, 31623,
  35482, 39811, 44669, 50119, 56235, 63096, 70795, 79433, 89126, 100000 >>
\* 20*log10(max(rms, 1e-9)), floored to whole dB (below -80 dB: the 1e-9 floor)
DbOf(rms) ==
  IF rms < DbThr[1] THEN -180
  ELSE -81 + Cardinality({i \in 1..81 : DbThr[i] <= rms})

\* level_from_frames, on the window's RMS: ((db + 60) / 60) clamped to [0, 1]
level_from_frames(rms) == Clamp(TDiv((DbOf(rms) + 60) * 100, 60), 0, 100)

\* ------------------------------------------------------------------- state
VARIABLES
  pc,                   \* analyzer position: "top" (loop head) or "fill" (window loop)
  now,                  \* now_ms()
  sr_usize, window_len, no_data_ms,
  hi_cnt, lo_cnt, tracking, ever_locked, none_cnt,
  anchor_bpm, stable_vals, ema_disp,
  fast_relock_deadline, prev_rms_db, recent_none_flag, dev_from_lock_cnt,
  last_hard_int, last_hard_state,
  noise_floor_rms, trk_x, trk_v,
  recent_ints, recent_ints_cand, force_clear_lock,
  LOCK_INT, LOCK_CNT, UNLOCK_CNT, LAST_SHOW_MS, ALT_INT, ALT_CNT,
  CURRENT_BPM,          \* the display slot
  RESET_REQUESTED,      \* the reset flag
  bpm_update,           \* the payload of the last bpm_update event emitted
  hop,                  \* what the last loop step did (its local values)
  count,                \* events so far: analysis hops, capture stalls begun,
                        \* reset_backend calls, sample-rate changes
  frames_q,             \* the frame queue: buffers [first, n, sr], oldest first
  sr_q,                 \* the sample-rate channel, oldest first
  tx_open,              \* a producer handle of the frame queue is alive
  src,                  \* the capture source: the rate dev_sr it captures at, the
                        \* number of samples it has produced, the rate it last
                        \* reported (at start or on the sample-rate channel)
  CAPTURE_RUNNING,      \* the flag that start_capture swaps
  analyzers,            \* analyzer threads spawned so far
  call_pc,              \* each start_capture call: "idle" (not yet made), "spawn"
                        \* (past the swap, about to spawn), "ok" (returned Ok)
  backend,              \* the estimator behind `backend`: its sample rate, its
                        \* envelope FIFO buf (each entry named by the place in the
                        \* received stream of the sample that completed it),
                        \* last_short_bpm, short_consistency, last_bpm
  key_tracker,          \* a KeyTracker: stable and pending
  heard,                \* the buffers the analyzer has taken from the frame queue
                        \* since its window was last cleared
  obs                   \* history of the run, kept for the properties only:
                        \*   none_run  none hops since the last hop of another kind
                        \*   trail     the kinds of the last two analysis hops
                        \*   stale     the lock integer that was held when fast relock
                        \*             was last entered (or a reset consumed) and has
                        \*             been kept since
                        \*   steady    the current run of estimate hops with confidence
                        \*             >= 0.90 and raw tempo within 0.2 BPM of its first
                        \*   starved   ms since a buffer that carried samples was
                        \*             received or a stall was reported
                        \*   fed       the estimator (backend) has processed a window
                        \*             since it was built by make_backend
                        \*   last_db   the loudness of the window of the last analysis
                        \*             hop, of any kind, since the window was cleared
                        \*   last_short  the short-window candidate of the estimator's
                        \*             last call (none when that call had none)
                        \*   last_both  the short-window candidate of the estimator's
                        \*             last call that had a long and a short candidate
                        \*   key_run   the raw key of the last update of the key tracker
                        \*             and the number of updates in a row, up to this
                        \*             one, that named it with a confidence that counts

winVars == << sr_usize, window_len, no_data_ms >>
trackVars == << hi_cnt, lo_cnt, tracking, ever_locked, none_cnt >>
smoothVars == << ema_disp, trk_x, trk_v >>
relockVars == << fast_relock_deadline, prev_rms_db, recent_none_flag, dev_from_lock_cnt >>
histVars == << anchor_bpm, stable_vals, last_hard_int, last_hard_state,
               recent_ints, recent_ints_cand >>
lockVars == << LOCK_INT, LOCK_CNT, UNLOCK_CNT, LAST_SHOW_MS, ALT_INT, ALT_CNT >>
outVars == << CURRENT_BPM, bpm_update >>
capVars == << frames_q, sr_q, tx_open, src, heard >>
startVars == << CAPTURE_RUNNING, analyzers, call_pc >>
estVars == << backend, key_tracker >>

vars == << pc, now, winVars, trackVars, smoothVars, relockVars, histVars,
           noise_floor_rms, force_clear_lock, lockVars, outVars,
           RESET_REQUESTED, hop, count, obs, capVars, startVars, estVars >>

\* the locals and statics of the analyzer thread
analyzerVars == << pc, now, winVars, trackVars, smoothVars, relockVars, histVars,
                   noise_floor_rms, force_clear_lock, lockVars, hop >>

target_len == sr_usize * 2
\* a hop that drops the whole window instead of half a second
hop_len_whole == sr_usize * 2
hop_len == sr_usize \div 2
\* an analysis step that takes everything the window holds
frames_len_all == window_len
\* frames: window.get(i) for i in 0..target_len, the oldest target_len samples
frames_len == Min(window_len, target_len)

DisplayBpm(b, c, s, l) == [bpm |-> b, confidence |-> c, state |-> s, level |-> l]
ZeroDisplay == DisplayBpm(0, 0, "analyzing", 0)

\* *guard = Some(payload); emit("bpm_update", payload)
Publish(payload) ==
  /\ CURRENT_BPM' = Some(payload)
  /\ bpm_update' = Some(payload)

Step(kind) == [kind |-> kind]

\* --------------------------------------------- the estimator and the tracker
\* envelope samples a second
ds_rate == 5
min_bpm == 910
max_bpm == 1800
NA_KEY == "N/A"

\* BpmEstimator::new
BpmEstimatorNew(sr) ==
  [sample_rate |-> sr, buf |-> << >>, last_short_bpm |-> None,
   short_consistency |-> 0, last_bpm |-> None]

\* KeyTracker::new
KeyTrackerNew == [stable |-> None, pending |-> None]

\* the analyzer, the display slot and the capture source as they start
InitLoop ==
  /\ pc = "top"
  /\ now = 0
  /\ sr_usize = InitSampleRate
  /\ window_len = 0
  /\ no_data_ms = 0
  /\ hi_cnt = 0 /\ lo_cnt = 0 /\ tracking = FALSE /\ ever_locked = FALSE
  /\ none_cnt = 0
  /\ anchor_bpm = None /\ stable_vals = << >> /\ ema_disp = None
  /\ fast_relock_deadline = None /\ prev_rms_db = None
  /\ recent_none_flag = FALSE /\ dev_from_lock_cnt = 0
  /\ last_hard_int = None /\ last_hard_state = None
  /\ noise_floor_rms = InitNoiseFloor /\ trk_x = None /\ trk_v = 0
  /\ recent_ints = << >> /\ recent_ints_cand = << >>
  /\ force_clear_lock = FALSE
  /\ LOCK_INT = None /\ LOCK_CNT = 0 /\ UNLOCK_CNT = 0
  /\ LAST_SHOW_MS = None /\ ALT_INT = None /\ ALT_CNT = 0
  /\ CURRENT_BPM = None
  /\ RESET_REQUESTED = FALSE
  /\ bpm_update = None
  /\ hop = Step("init")
  /\ count = [hops |-> 0, stalls |-> 0, resets |-> 0, sr_changes |-> 0]
  /\ obs = [none_run |-> 0, trail |-> << >>, stale |-> None, steady |-> None,
            starved |-> 0, fed |-> FALSE, last_db |-> None,
            last_short |-> None, last_both |-> None,
            key_run |-> [key |-> NA_KEY, n |-> 0]]
  /\ frames_q = << >>
  /\ sr_q = << InitSampleRate >>
  /\ tx_open = TRUE
  /\ src = [dev_sr |-> InitSampleRate, produced |-> 0, reported |-> InitSampleRate]
  /\ heard = << >>
  /\ backend = BpmEstimatorNew(InitSampleRate)
  /\ key_tracker = KeyTrackerNew

\* the running program: the first start_capture has spawned the analyzer
Init ==
  /\ InitLoop
  /\ CAPTURE_RUNNING = TRUE
  /\ analyzers = 1
  /\ call_pc = [c \in 1..MaxCalls |-> IF c = 1 THEN "ok" ELSE "idle"]

\* the process before any command has been invoked
InitStart ==
  /\ InitLoop
  /\ CAPTURE_RUNNING = FALSE
  /\ analyzers = 0
  /\ call_pc = [c \in 1..MaxCalls |-> "idle"]

\* ------------------------------------------------ the start_capture command
\* commands.rs start_capture, up to the swap: was_running = flag.swap(true);
\* if was_running { return Ok(()) }
start_capture_swap(c) ==
  /\ call_pc[c] = "idle"
  /\ CAPTURE_RUNNING' = TRUE
  /\ call_pc' = [call_pc EXCEPT ![c] = IF CAPTURE_RUNNING THEN "ok" ELSE "spawn"]
  /\ UNCHANGED << analyzerVars, outVars, RESET_REQUESTED, count, obs, capVars,
                  estVars, analyzers >>

\* commands.rs start_capture, after the swap: thread::spawn(run_capture); Ok(())
start_capture_spawn(c) ==
  /\ call_pc[c] = "spawn"
  /\ analyzers' = analyzers + 1
  /\ call_pc' = [call_pc EXCEPT ![c] = "ok"]
  /\ UNCHANGED << analyzerVars, outVars, RESET_REQUESTED, count, obs, capVars,
                  estVars, CAPTURE_RUNNING >>

\* main.rs start_capture, the command that main() registers:
\* thread::spawn(run_capture); Ok(())
start_capture_main(c) ==
  /\ call_pc[c] = "idle"
  /\ analyzers' = analyzers + 1
  /\ call_pc' = [call_pc EXCEPT ![c] = "ok"]
  /\ UNCHANGED << analyzerVars, outVars, RESET_REQUESTED, count, obs, capVars,
                  estVars, CAPTURE_RUNNING >>

\* ------------------------------------------------ the reset_backend command
\* a reset command that flips the flag instead of raising it
reset_backend_toggle ==
  /\ RESET_REQUESTED' = ~RESET_REQUESTED
  /\ Publish(ZeroDisplay)
  /\ count' = [count EXCEPT !.resets = @ + 1]
  /\ UNCHANGED << pc, now, winVars, trackVars, smoothVars, relockVars, histVars,
                  noise_floor_rms, force_clear_lock, lockVars, hop, obs, capVars, startVars, estVars >>

\* commands.rs reset_backend: raise the flag, write and emit the zeroed display
reset_backend ==
  /\ RESET_REQUESTED' = TRUE
  /\ Publish(ZeroDisplay)
  /\ count' = [count EXCEPT !.resets = @ + 1]
  /\ UNCHANGED << pc, now, winVars, trackVars, smoothVars, relockVars, histVars,
                  noise_floor_rms, force_clear_lock, lockVars, hop, obs, capVars, startVars, estVars >>

\* ------------------------------------------------------- the analyzer loop
\* loop head: RESET_REQUESTED.swap(false); when it was set, clear the state
LoopTop ==
  /\ pc = "top"
  /\ pc' = "fill"
  /\ RESET_REQUESTED' = FALSE
  /\ IF RESET_REQUESTED
       THEN /\ window_len' = 0
            /\ ema_disp' = None /\ prev_rms_db' = None /\ anchor_bpm' = None
            /\ stable_vals' = << >>
            /\ hi_cnt' = 0 /\ lo_cnt' = 0 /\ tracking' = FALSE
            /\ ever_locked' = FALSE /\ none_cnt' = 0 /\ dev_from_lock_cnt' = 0
            /\ force_clear_lock' = TRUE
            /\ recent_none_flag' = FALSE
            /\ last_hard_int' = None /\ last_hard_state' = None
            /\ trk_x' = None /\ trk_v' = 0
            /\ recent_ints' = << >> /\ recent_ints_cand' = << >>
            /\ noise_floor_rms' = InitNoiseFloor
            /\ Publish(ZeroDisplay)
            /\ hop' = Step("reset")
            /\ obs' = [obs EXCEPT !.none_run = 0, !.stale = LOCK_INT, !.steady = None,
                                  !.last_db = None]
            /\ UNCHANGED << sr_usize, no_data_ms, fast_relock_deadline >>
       ELSE /\ hop' = Step("top")
            /\ UNCHANGED << winVars, trackVars, smoothVars, relockVars, histVars,
                            noise_floor_rms, force_clear_lock, outVars, obs >>
  /\ heard' = IF RESET_REQUESTED THEN << >> ELSE heard
  /\ UNCHANGED << now, lockVars, count, frames_q, sr_q, tx_open, src, startVars, estVars >>

\* window loop: sr_rx.try_recv() yields a rate different from the current one
SampleRateChange(new_sr) ==
  /\ pc = "fill"
  /\ window_len < target_len
  /\ new_sr # sr_usize
  /\ sr_usize' = new_sr
  /\ window_len' = 0
  /\ ema_disp' = None /\ prev_rms_db' = None /\ anchor_bpm' = None
  /\ stable_vals' = << >>
  /\ hi_cnt' = 0 /\ lo_cnt' = 0 /\ tracking' = FALSE /\ ever_locked' = FALSE
  /\ none_cnt' = 0 /\ dev_from_lock_cnt' = 0
  /\ force_clear_lock' = TRUE
  /\ Publish(ZeroDisplay)
  /\ hop' = Step("sr_change")
  /\ count' = [count EXCEPT !.sr_changes = @ + 1]
  /\ obs' = [obs EXCEPT !.none_run = 0, !.steady = None, !.fed = FALSE,
                        !.last_db = None, !.last_short = None, !.last_both = None]
  /\ heard' = << >>
  /\ backend' = BpmEstimatorNew(new_sr)
  /\ UNCHANGED << pc, now, no_data_ms, trk_x, trk_v, fast_relock_deadline,
                  recent_none_flag, last_hard_int, last_hard_state, recent_ints,
                  recent_ints_cand, noise_floor_rms, lockVars, RESET_REQUESTED,
                  frames_q, sr_q, tx_open, src, startVars, key_tracker >>

\* window loop: rx.recv_timeout(20 ms) yields a buffer of n samples (n may be 0),
\* the wall clock having advanced by dt
RecvBuf(n, dt) ==
  /\ pc = "fill"
  /\ window_len < target_len
  /\ window_len' = window_len + n
  /\ no_data_ms' = 0
  /\ now' = now + dt
  /\ hop' = Step("recv")
  /\ obs' = [obs EXCEPT !.starved = IF n > 0 THEN 0 ELSE @ + dt]
  /\ UNCHANGED << pc, sr_usize, trackVars, smoothVars, relockVars, histVars,
                  noise_floor_rms, force_clear_lock, lockVars, outVars,
                  RESET_REQUESTED, count, capVars, startVars, estVars >>

\* window loop: rx.recv_timeout(20 ms) returns an error after dt ms
RecvErr(dt) ==
  /\ pc = "fill"
  /\ window_len < target_len
  /\ now' = now + dt
  /\ IF no_data_ms + QueueTimeoutMs >= StallMs
       THEN /\ tracking' = FALSE /\ ever_locked' = FALSE
            /\ hi_cnt' = 0 /\ lo_cnt' = 0
            /\ Publish(ZeroDisplay)
            /\ no_data_ms' = 0
            /\ hop' = Step("stall")
            /\ obs' = [obs EXCEPT !.steady = None, !.starved = 0]
       ELSE /\ no_data_ms' = no_data_ms + QueueTimeoutMs
            /\ hop' = Step("timeout")
            /\ obs' = [obs EXCEPT !.starved = @ + dt]
            /\ UNCHANGED << tracking, ever_locked, hi_cnt, lo_cnt, outVars >>
  /\ count' = IF no_data_ms = 0 THEN [count EXCEPT !.stalls = @ + 1] ELSE count
  /\ UNCHANGED << pc, sr_usize, window_len, none_cnt, smoothVars, relockVars,
                  histVars, noise_floor_rms, force_clear_lock, lockVars,
                  RESET_REQUESTED, capVars, startVars, estVars >>

\* window loop: rx.recv_timeout(20 ms) times out
RecvTimeout == RecvErr(QueueTimeoutMs)

\* noise_floor_rms = noise_floor_rms * 0.99 + rms * 0.01
NoiseFloorUpdate(nf, rms) == (nf * 99 + rms + 50) \div 100

\* the kinds of the last two analysis hops, after one of kind k
Trail(tr, k) == IF Len(tr) < 2 THEN Append(tr, k) ELSE << tr[2], k >>

\* analysis step on a window whose level is below 0.03
SilentHop(rms) ==
  /\ pc = "fill"
  /\ window_len >= target_len
  /\ level_from_frames(rms) < SilenceLevel
  /\ noise_floor_rms' = NoiseFloorUpdate(noise_floor_rms, rms)
  /\ tracking' = FALSE /\ ever_locked' = FALSE /\ hi_cnt' = 0 /\ lo_cnt' = 0
  /\ Publish(DisplayBpm(0, 0, "analyzing", level_from_frames(rms)))
  /\ window_len' = window_len - hop_len
  /\ pc' = "top"
  /\ hop' = [kind |-> "silent", level |-> level_from_frames(rms),
             popped |-> hop_len, estimator_called |-> FALSE,
             frames |-> frames_len]
  /\ count' = [count EXCEPT !.hops = @ + 1]
  /\ obs' = [obs EXCEPT !.none_run = 0, !.trail = Trail(@, "silent"),
                        !.steady = None, !.last_db = Some(DbOf(rms))]
  /\ UNCHANGED << now, sr_usize, no_data_ms, none_cnt, smoothVars, relockVars,
                  histVars, force_clear_lock, lockVars, RESET_REQUESTED, capVars, startVars, estVars >>

\* a none hop that repeats the state of the display value it found
NonePayloadKeepsState(last, ever, level) ==
  IF IsSome(last)
    THEN DisplayBpm(Get(last).bpm, 0, Get(last).state, level)
    ELSE DisplayBpm(0, 0, "analyzing", level)

\* the payload of a hop without an estimate: last is the display slot
NonePayload(last, ever, level) ==
  IF IsSome(last)
    THEN DisplayBpm(Get(last).bpm, 0, IF ever THEN "uncertain" ELSE "analyzing", level)
    ELSE DisplayBpm(0, 0, "analyzing", level)

\* analysis step on which backend.process returns None
NoneHop(rms) ==
  /\ pc = "fill"
  /\ window_len >= target_len
  /\ level_from_frames(rms) >= SilenceLevel
  /\ noise_floor_rms' = NoiseFloorUpdate(noise_floor_rms, rms)
  /\ none_cnt' = none_cnt + 1
  /\ tracking' = IF none_cnt + 1 >= NoneLimit THEN FALSE ELSE tracking
  /\ ever_locked' = IF none_cnt + 1 >= NoneLimit THEN FALSE ELSE ever_locked
  /\ Publish(NonePayload(CURRENT_BPM, ever_locked', level_from_frames(rms)))
  /\ window_len' = window_len - hop_len
  /\ recent_none_flag' = IF none_cnt + 1 >= NoneLimit THEN TRUE ELSE recent_none_flag
  /\ pc' = "top"
  /\ hop' = [kind |-> "none", level |-> level_from_frames(rms),
             popped |-> hop_len, estimator_called |-> TRUE,
             prev |-> CURRENT_BPM, tracking_before |-> tracking,
             frames |-> frames_len]
  /\ count' = [count EXCEPT !.hops = @ + 1]
  /\ obs' = [obs EXCEPT !.none_run = @ + 1, !.trail = Trail(@, "none"),
                        !.steady = None, !.fed = TRUE, !.last_db = Some(DbOf(rms))]
  /\ UNCHANGED << now, sr_usize, no_data_ms, hi_cnt, lo_cnt, smoothVars,
                  fast_relock_deadline, prev_rms_db, dev_from_lock_cnt, histVars,
                  force_clear_lock, lockVars, RESET_REQUESTED, capVars, startVars, estVars >>

\* ------------------------------------------ the capture source and the queue
\* a push that always finds room
PushUnbounded(n) ==
  /\ tx_open
  /\ frames_q' = Append(frames_q, [first |-> src.produced + 1, n |-> n,
                                   sr |-> src.dev_sr])
  /\ src' = [src EXCEPT !.produced = @ + n]
  /\ UNCHANGED << analyzerVars, outVars, RESET_REQUESTED, count, obs,
                  sr_q, tx_open, heard, startVars, estVars >>

\* capture thread: frames_tx.try_send(mono) of a buffer of n samples
Push(n) ==
  /\ tx_open
  /\ frames_q' = IF Len(frames_q) < QueueCap
                   THEN Append(frames_q, [first |-> src.produced + 1, n |-> n,
                                          sr |-> src.dev_sr])
                   ELSE frames_q
  /\ src' = [src EXCEPT !.produced = @ + n]
  /\ UNCHANGED << analyzerVars, outVars, RESET_REQUESTED, count, obs,
                  sr_q, tx_open, heard, startVars, estVars >>

\* capture thread: the default output device has changed and the stream is
\* rebuilt with the mix format of the new device, whose rate is r
DeviceChange(r) ==
  /\ tx_open
  /\ r # src.dev_sr
  /\ src' = [src EXCEPT !.dev_sr = r]
  /\ UNCHANGED << analyzerVars, outVars, RESET_REQUESTED, count, obs,
                  frames_q, sr_q, tx_open, heard, startVars, estVars >>

\* the capture thread ends: every producer handle of the frame queue is dropped
Close ==
  /\ tx_open
  /\ tx_open' = FALSE
  /\ UNCHANGED << analyzerVars, outVars, RESET_REQUESTED, count, obs,
                  frames_q, sr_q, src, heard, startVars, estVars >>

\* a receive that hands over the newest buffer of the queue
RecvNewest ==
  /\ pc = "fill"
  /\ window_len < target_len
  /\ Len(frames_q) > 0
  /\ frames_q' = SubSeq(frames_q, 1, Len(frames_q) - 1)
  /\ heard' = Append(heard, frames_q[Len(frames_q)])
  /\ window_len' = window_len + frames_q[Len(frames_q)].n
  /\ no_data_ms' = 0
  /\ hop' = Step("recv")
  /\ obs' = [obs EXCEPT !.starved = 0]
  /\ UNCHANGED << pc, now, sr_usize, trackVars, smoothVars, relockVars, histVars,
                  noise_floor_rms, force_clear_lock, lockVars, outVars,
                  RESET_REQUESTED, count, sr_q, tx_open, src, startVars, estVars >>

\* window loop: rx.recv_timeout(20 ms) returns the oldest buffer of the queue
\* at once; its samples are appended to the window
RecvFrame ==
  /\ pc = "fill"
  /\ window_len < target_len
  /\ Len(frames_q) > 0
  /\ frames_q' = Tail(frames_q)
  /\ heard' = Append(heard, Head(frames_q))
  /\ window_len' = window_len + Head(frames_q).n
  /\ no_data_ms' = 0
  /\ hop' = Step("recv")
  /\ obs' = [obs EXCEPT !.starved = 0]
  /\ UNCHANGED << pc, now, sr_usize, trackVars, smoothVars, relockVars, histVars,
                  noise_floor_rms, force_clear_lock, lockVars, outVars,
                  RESET_REQUESTED, count, sr_q, tx_open, src, startVars, estVars >>

\* window loop: sr_rx.try_recv() yields the rate the analyzer already has
SrRecvSame ==
  /\ pc = "fill"
  /\ window_len < target_len
  /\ Len(sr_q) > 0
  /\ Head(sr_q) = sr_usize
  /\ sr_q' = Tail(sr_q)
  /\ UNCHANGED << analyzerVars, outVars, RESET_REQUESTED, count, obs,
                  frames_q, tx_open, src, heard, startVars, estVars >>

\* --------------------------------------------- the estimator: push_frames
\* the samples of a sequence of buffers, each named by its place in production
RECURSIVE Samples(_)
Samples(bufs) ==
  IF bufs = << >> THEN << >>
  ELSE [i \in 1..Head(bufs).n |-> Head(bufs).first + i - 1] \o Samples(Tail(bufs))

\* decim = round(sample_rate / ds_rate).max(1)
decim(sr) == Max(1, (2 * sr + ds_rate) \div (2 * ds_rate))
min_lag == (2 * ds_rate * 600 + max_bpm) \div (2 * max_bpm)
max_lag == (2 * ds_rate * 600 + min_bpm) \div (2 * min_bpm)
\* at least 1.6 s of envelope
min_keep == (ds_rate * 16) \div 10
\* the envelope FIFO holds 4 s
max_len == ds_rate * 4

LastN(q, n) == IF Len(q) > n THEN SubSeq(q, Len(q) - n + 1, Len(q)) ELSE q

\* one envelope sample for every decim frames, named by the last of them
Envelope(frames, d) == [j \in 1..(Len(frames) \div d) |-> frames[j * d]]

\* the FIFO after a call: on a jump of the input level by more than 6 dB only
\* the last second is kept; the envelope of all the frames is appended; the
\* FIFO is cut to max_len from the front
PushEnvelope(buf, frames, d, jump) ==
  LastN((IF jump THEN LastN(buf, ds_rate) ELSE buf) \o Envelope(frames, d), max_len)

\* an evaluation that accepts a slice of any length
eval_slice_any(xs_len, e) ==
  IF xs_len <= max_lag + 1 \/ ~e.pass \/ xs_len - e.trim <= 0 THEN None
  ELSE Some([bpm |-> e.bpm, confidence |-> e.conf,
             win_sec |-> (Max(1, Min(e.crop, xs_len - e.trim)) * 10) \div ds_rate])

\* eval_slice on xs_len envelope samples. What the signal decides is given by e:
\* e.trim samples are cut off as silence at the ends, e.pass tells whether the
\* peak, density, score and margin filters let the slice through, e.crop is the
\* length of the peak-aligned crop, e.bpm and e.conf the tempo and confidence
\* found. win_sec is in tenths of a second.
eval_slice(xs_len, e) ==
  IF xs_len <= max_lag + 1 \/ ~e.pass \/ xs_len - e.trim < min_keep THEN None
  ELSE LET slice_len == xs_len - e.trim
           crop_len == Min(e.crop, slice_len)
           xw_len == IF crop_len < min_keep THEN slice_len ELSE crop_len
       IN  Some([bpm |-> e.bpm, confidence |-> e.conf,
                 win_sec |-> (xw_len * 10) \div ds_rate])

\* short_len: 2.5 beats of last_bpm (140 when there is none), clamped to 2..4 s
short_len(last_bpm) ==
  LET base_bpm == Clamp(IF IsSome(last_bpm) THEN Get(last_bpm) ELSE 1400,
                        min_bpm, max_bpm)
      short_ms == Clamp(1500000 \div base_bpm, 2000, 4000)
  IN  (ds_rate * short_ms + 500) \div 1000

\* an arbitration that needs no consistency of the short candidate
ArbitrateAtOnce(est, long_est, short_est) ==
  IF IsSome(long_est) /\ IsSome(short_est)
    THEN LET bl == Get(long_est).bpm
             bs == Get(short_est).bpm
         IN  [result |-> IF 100 * Abs(bs - bl) > 6 * Max(bl, 1)
                           /\ 100 * Get(short_est).confidence
                                >= 75 * Get(long_est).confidence
                           THEN Some([est |-> Get(short_est), from_short |-> TRUE])
                           ELSE Some([est |-> Get(long_est), from_short |-> FALSE]),
              last_short_bpm |-> Some(bs), short_consistency |-> 1]
    ELSE [result |-> IF IsSome(long_est)
                       THEN Some([est |-> Get(long_est), from_short |-> FALSE])
                     ELSE IF IsSome(short_est)
                       THEN Some([est |-> Get(short_est), from_short |-> TRUE])
                     ELSE None,
          last_short_bpm |-> est.last_short_bpm,
          short_consistency |-> est.short_consistency]

\* the choice between the long and the short candidate, and what it leaves in
\* last_short_bpm and short_consistency
Arbitrate(est, long_est, short_est) ==
  IF IsSome(long_est) /\ IsSome(short_est)
    THEN LET bl == Get(long_est).bpm
             bs == Get(short_est).bpm
             diverge == 100 * Abs(bs - bl) > 6 * Max(bl, 1)
             cons == IF IsSome(est.last_short_bpm)
                       /\ 100 * Abs(bs - Get(est.last_short_bpm)) <= 3 * Max(bs, 1)
                       THEN SatInc8(est.short_consistency) ELSE 1
             prefer_short == /\ diverge
                             /\ 100 * Get(short_est).confidence
                                  >= 75 * Get(long_est).confidence
                             /\ cons >= 2
         IN  [result |-> IF prefer_short
                           THEN Some([est |-> Get(short_est), from_short |-> TRUE])
                           ELSE Some([est |-> Get(long_est), from_short |-> FALSE]),
              last_short_bpm |-> Some(bs), short_consistency |-> cons]
    ELSE [result |-> IF IsSome(long_est)
                       THEN Some([est |-> Get(long_est), from_short |-> FALSE])
                     ELSE IF IsSome(short_est)
                       THEN Some([est |-> Get(short_est), from_short |-> TRUE])
                     ELSE None,
          last_short_bpm |-> est.last_short_bpm,
          short_consistency |-> est.short_consistency]

\* an analysis step of the loop as the estimator sees it: the first target_len
\* samples of the window are handed to backend.process, hop_len samples are
\* popped. jump: the level of the frames is more than 6 dB above that of the
\* last call; el, es: what the signal gives on the long and the short slice.
Process(jump, el, es) ==
  /\ pc = "fill"
  /\ window_len >= target_len
  /\ \E all \in {Samples(heard)} :
     \E frames \in {SubSeq(all, Len(all) - window_len + 1,
                            Len(all) - window_len + frames_len)} :
     \E buf2 \in {PushEnvelope(backend.buf, frames, decim(backend.sample_rate),
                                jump)} :
     \E sl \in {short_len(backend.last_bpm)} :
     \E long_est \in {IF Len(buf2) < ds_rate THEN None
                       ELSE eval_slice(Len(buf2), el)},
        short_est \in {IF Len(buf2) < ds_rate \/ Len(buf2) <= sl THEN None
                        ELSE eval_slice(sl, es)} :
     \E a \in {Arbitrate(backend, long_est, short_est)} :
       /\ backend' = [backend EXCEPT
                        !.buf = buf2,
                        !.last_short_bpm = a.last_short_bpm,
                        !.short_consistency = a.short_consistency,
                        !.last_bpm = IF IsSome(a.result)
                                       THEN Some(Get(a.result).est.bpm) ELSE @]
       /\ hop' = [kind |-> "process", frames |-> frames_len, popped |-> hop_len,
                  estimator_called |-> TRUE, first |-> frames[1],
                  long |-> long_est, short |-> short_est,
                  prev_short_bpm |-> backend.last_short_bpm,
                  prev_short |-> obs.last_short, prev_both |-> obs.last_both,
                  result |-> a.result]
       /\ obs' = [obs EXCEPT !.fed = TRUE, !.last_short = short_est,
                             !.last_both = IF IsSome(long_est) /\ IsSome(short_est)
                                             THEN short_est ELSE @]
  /\ window_len' = window_len - hop_len
  /\ pc' = "top"
  /\ count' = [count EXCEPT !.hops = @ + 1]
  /\ UNCHANGED << now, sr_usize, no_data_ms, trackVars, smoothVars, relockVars,
                  histVars, noise_floor_rms, force_clear_lock, lockVars, outVars,
                  RESET_REQUESTED, capVars, startVars, key_tracker >>

\* ------------------------------------------------ the key tracker: update
\* KeyTrackerConfig::default; confidences and gaps in hundredths
candidate_conf_min == 35
init_conf_min == 45
init_gap_min == 5
init_wins == 3
switch_conf_min == 50
switch_gap_min == 6
switch_wins == 3
mode_switch_conf_min == 60
mode_switch_gap_min == 10
mode_switch_wins == 4
hold_ms == 4000

\* the number of the key on the Camelot wheel: C is 8B, Am is 8A, G is 9B
camelot_number(key) ==
  IF key \in {"C", "Am"} THEN Some(8) ELSE IF key = "G" THEN Some(9) ELSE None

same_camelot_number(a, b) ==
  IsSome(camelot_number(a)) /\ camelot_number(a) = camelot_number(b)

\* a rule that lets any counted estimate switch the key
SwitchRuleLoose(same_num) ==
  [need_wins |-> 1, conf_min |-> candidate_conf_min, gap_min |-> 0]

\* (need_wins, conf_min, gap_min) of a switch of the stable key
SwitchRule(same_num) ==
  IF same_num
    THEN [need_wins |-> mode_switch_wins, conf_min |-> mode_switch_conf_min,
          gap_min |-> mode_switch_gap_min]
    ELSE [need_wins |-> switch_wins, conf_min |-> switch_conf_min,
          gap_min |-> switch_gap_min]

\* the state of a decision that shows a stable key
ShownState(raw) == IF raw.state = "tracking" THEN "tracking" ELSE "uncertain"

\* hold_or_na: the tracker it leaves and the decision it returns
hold_or_na(kt, raw, now_ms, fall_state) ==
  IF IsSome(kt.stable) /\ now_ms - Get(kt.stable).last_confirm_ms <= hold_ms
    THEN [tracker |-> [stable |-> kt.stable, pending |-> None],
          decision |-> [key |-> Get(kt.stable).key, state |-> "uncertain"]]
    ELSE [tracker |-> [stable |-> None, pending |-> None],
          decision |-> [key |-> NA_KEY, state |-> fall_state]]

\* KeyTracker::update: the tracker it leaves and the decision it returns
update(kt, raw, now_ms) ==
  IF raw.key = NA_KEY \/ raw.state = "atonal"
    THEN hold_or_na(kt, raw, now_ms, "atonal")
  ELSE IF raw.state = "analyzing"
    THEN hold_or_na(kt, raw, now_ms, "analyzing")
  ELSE
    LET can_count == raw.confidence >= candidate_conf_min
        pending == IF ~can_count THEN None
                   ELSE IF IsSome(kt.pending) /\ Get(kt.pending).key = raw.key
                     THEN Some([key |-> raw.key, wins |-> Get(kt.pending).wins + 1])
                   ELSE Some([key |-> raw.key, wins |-> 1])
        wins == IF IsSome(pending) /\ Get(pending).key = raw.key
                  THEN Get(pending).wins ELSE 0
        confirmed == Some([key |-> raw.key, last_confirm_ms |-> now_ms])
    IN  IF IsSome(kt.stable)
          THEN LET stable == Get(kt.stable)
                   rule == SwitchRule(same_camelot_number(stable.key, raw.key))
                   can_switch == /\ can_count
                                 /\ raw.confidence >= rule.conf_min
                                 /\ raw.gap >= rule.gap_min
                                 /\ wins >= rule.need_wins
               IN  IF raw.key = stable.key \/ can_switch
                     THEN [tracker |-> [stable |-> confirmed, pending |-> None],
                           decision |-> [key |-> raw.key, state |-> ShownState(raw)]]
                   ELSE IF now_ms - stable.last_confirm_ms <= hold_ms
                     THEN [tracker |-> [stable |-> kt.stable, pending |-> pending],
                           decision |-> [key |-> stable.key, state |-> "uncertain"]]
                   ELSE [tracker |-> [stable |-> None, pending |-> pending],
                         decision |-> [key |-> NA_KEY, state |-> "atonal"]]
        ELSE IF /\ can_count
                /\ raw.confidence >= init_conf_min
                /\ raw.gap >= init_gap_min
                /\ wins >= init_wins
          THEN [tracker |-> [stable |-> confirmed, pending |-> pending],
                decision |-> [key |-> raw.key, state |-> ShownState(raw)]]
        ELSE [tracker |-> [stable |-> None, pending |-> pending],
              decision |-> [key |-> raw.key, state |-> raw.state]]

\* a call of update with the estimate raw, dt ms after the last one
KeyUpdate(raw, dt) ==
  /\ now' = now + dt
  /\ \E r \in {update(key_tracker, raw, now + dt)} :
       /\ key_tracker' = r.tracker
       /\ hop' = [kind |-> "key_update", raw |-> raw, now_ms |-> now + dt,
                  stable_before |-> key_tracker.stable, decision |-> r.decision]
  /\ obs' = [obs EXCEPT !.key_run =
               IF raw.key # NA_KEY /\ raw.state \notin {"atonal", "analyzing"}
                  /\ raw.confidence >= candidate_conf_min
                 THEN [key |-> raw.key,
                       n |-> IF @.key = raw.key THEN @.n + 1 ELSE 1]
                 ELSE [key |-> NA_KEY, n |-> 0]]
  /\ count' = [count EXCEPT !.hops = @ + 1]
  /\ UNCHANGED << pc, winVars, trackVars, smoothVars, relockVars, histVars,
                  noise_floor_rms, force_clear_lock, lockVars, outVars,
                  RESET_REQUESTED, capVars, startVars, backend >>

\* ------------------------------------------- the estimate hop: its stages
\* conf = (min(raw.confidence, 0.9)^0.9 * snr_boost) clamped to [0, 0.95]
SnrBoost(rms, nf) == Clamp((rms * 40) \div Max(nf, 1), 60, 115)
\* the product without the final clamp
EffectiveConfUnclamped(raw_conf, rms, nf) ==
  (Pow09(Min(raw_conf, 90)) * SnrBoost(rms, nf) + 50) \div 100
EffectiveConf(raw_conf, rms, nf) ==
  Clamp((Pow09(Min(raw_conf, 90)) * SnrBoost(rms, nf) + 50) \div 100, 0, ConfCap)

\* (thr_hi, thr_lo) from raw.win_sec (tenths of a second)
ThrHi(win_sec) == IF win_sec <= 1 THEN 15 ELSE HiTh
ThrLo(win_sec) == IF win_sec <= 1 THEN 8 ELSE LoTh

\* a hysteresis that enters tracking without recording that it ever locked
HysteresisForgetsLock(conf, win_sec) ==
  LET hi == IF conf >= ThrHi(win_sec) THEN hi_cnt + 1 ELSE 0
      lo == IF conf <= ThrLo(win_sec) THEN lo_cnt + 1 ELSE 0
      enter == ~tracking /\ hi >= 3
      trk1 == IF enter THEN TRUE ELSE tracking
      trk2 == IF trk1 /\ lo >= 2 THEN FALSE ELSE trk1
  IN [hi_cnt |-> hi, lo_cnt |-> lo, tracking |-> trk2, ever_locked |-> ever_locked]

\* hysteresis counters and flags after an estimate hop with confidence conf
Hysteresis(conf, win_sec) ==
  LET hi == IF conf >= ThrHi(win_sec) THEN hi_cnt + 1 ELSE 0
      lo == IF conf <= ThrLo(win_sec) THEN lo_cnt + 1 ELSE 0
      enter == ~tracking /\ hi >= 3
      trk1 == IF enter THEN TRUE ELSE tracking
      trk2 == IF trk1 /\ lo >= 2 THEN FALSE ELSE trk1
  IN [hi_cnt |-> hi, lo_cnt |-> lo, tracking |-> trk2,
      ever_locked |-> (IF enter THEN TRUE ELSE ever_locked)]

StateOf(trk, ever) ==
  IF trk THEN "tracking" ELSE IF ever THEN "uncertain" ELSE "analyzing"

\* a try_cand without the 0.2 BPM margin
TryCandNoMargin(val, base, best) ==
  IF val >= 600 /\ val <= 2000 /\ Abs(val - base) < best.err
    THEN [bpm |-> val, err |-> Abs(val - base)]
    ELSE best

\* try_cand of the harmonic correction: best is [bpm, err]
TryCand(val, base, best) ==
  IF val >= 600 /\ val <= 2000 /\ Abs(val - base) + 2 < best.err
    THEN [bpm |-> val, err |-> Abs(val - base)]
    ELSE best

\* harmonic correction of the raw tempo against the anchor
HarmonicCorrect(disp, anchor) ==
  IF IsNone(anchor) THEN disp
  ELSE LET base == Get(anchor)
           b0 == [bpm |-> disp, err |-> Abs(disp - base)]
           b1 == TryCand(disp \div 2, base, b0)
           b2 == TryCand(disp * 2, base, b1)
           b3 == TryCand((disp * 2) \div 3, base, b2)
           b4 == TryCand((disp * 3) \div 2, base, b3)
       IN b4.bpm

\* an octave loop that folds up only from below 90
NormStepBelow90(t) == IF t < 900 THEN t * 2 ELSE IF t > 1800 THEN t \div 2 ELSE t

\* one turn of the octave loop
NormStep(t) == IF t < 910 THEN t * 2 ELSE IF t > 1800 THEN t \div 2 ELSE t

\* octave normalization into [91, 180]: up to 4 turns, kept only if it lands
OctaveNormalize(disp) ==
  IF disp < 910 \/ disp > 1800
    THEN LET t == NormStep(NormStep(NormStep(NormStep(disp))))
         IN IF t >= 910 /\ t <= 1800 THEN t ELSE disp
    ELSE disp

\* the integer lock block: L holds the six statics, the result the new statics,
\* the display value, dev_from_lock_cnt and force_clear_lock
IntegerLock(L, disp0, conf, in_fast, force, dev, t) ==
  LET expired == IsSome(L.last_show) /\ t - Get(L.last_show) > LockExpireMs
      A == IF expired
             THEN [L EXCEPT !.int = None, !.cnt = 0, !.unlock = 0]
             ELSE L
      disp_round == RoundBpm(disp0)
      diff == Abs(disp0 - disp_round * 10)
      within == diff <= 6
      B == IF in_fast \/ force
             THEN [A EXCEPT !.int = None, !.cnt = 0, !.unlock = 0,
                            !.alt_int = None, !.alt_cnt = 0]
             ELSE A
      far == IsSome(B.int) /\ conf >= 85 /\ Abs(disp0 - Get(B.int) * 10) >= 20
      C == IF far THEN [B EXCEPT !.int = None, !.cnt = 0, !.unlock = 0] ELSE B
      \* branch 1: conf >= 0.80 and within
      cnt1 == IF IsSome(C.int) /\ Get(C.int) = disp_round
                THEN SatInc8(C.cnt) ELSE 1
      cnt2 == IF conf >= 90 /\ diff <= 4 /\ cnt1 < 2 THEN 2 ELSE cnt1
      D1 == [C EXCEPT !.int = Some(disp_round), !.cnt = cnt2,
                      !.unlock = IF cnt2 >= 2 THEN 0 ELSE C.unlock]
      disp1 == IF cnt2 >= 2 THEN disp_round * 10 ELSE disp0
      \* branch 2: a lock exists
      n == Get(C.int)
      away == conf >= 82 /\ Abs(disp0 - n * 10) > 13
      unl == IF away THEN SatInc8(C.unlock) ELSE 0
      E == IF away /\ unl >= 3
             THEN [C EXCEPT !.int = None, !.cnt = 0, !.unlock = 0]
             ELSE [C EXCEPT !.unlock = unl]
      switch_conf == IF in_fast THEN 70 ELSE 82
      switch_need == IF in_fast THEN 2 ELSE 3
      near_other == diff <= 4 /\ disp_round # n
      alt == IF conf >= switch_conf /\ near_other
               THEN IF E.alt_int = Some(disp_round)
                      THEN SatInc8(E.alt_cnt) ELSE 1
               ELSE 0
      switched == conf >= switch_conf /\ near_other /\ alt >= switch_need
      F == IF conf >= switch_conf /\ near_other
             THEN IF switched
                    THEN [E EXCEPT !.alt_int = Some(disp_round), !.alt_cnt = alt,
                                   !.int = Some(disp_round), !.cnt = 2, !.unlock = 0]
                    ELSE [E EXCEPT !.alt_int = Some(disp_round), !.alt_cnt = alt]
             ELSE [E EXCEPT !.alt_cnt = 0]
      disp2 == IF switched THEN disp_round * 10 ELSE disp0
      dev2 == IF Abs(disp2 - n * 10) >= 80 THEN SatInc8(dev) ELSE 0
      G == IF conf >= 80 /\ within THEN D1
           ELSE IF IsSome(C.int) THEN F ELSE C
      disp3 == IF conf >= 80 /\ within THEN disp1
               ELSE IF IsSome(C.int) THEN disp2 ELSE disp0
      dev3 == IF conf >= 80 /\ within THEN dev
              ELSE IF IsSome(C.int) THEN dev2 ELSE dev
      H == IF conf >= 80 THEN [G EXCEPT !.last_show = Some(t)] ELSE G
  IN [lock |-> H, disp |-> disp3, dev |-> dev3,
      force |-> (IF in_fast \/ force THEN FALSE ELSE force),
      snapped |-> ((conf >= 80 /\ within /\ cnt2 >= 2)
                   \/ (~(conf >= 80 /\ within) /\ IsSome(C.int) /\ switched)),
      used |-> C.int, used_cnt |-> C.cnt, used_unlock |-> C.unlock,
      used_alt |-> C.alt_cnt]

\* while let Some(front) = q.front() { if t - front.t > span { pop_front } else break }
RECURSIVE PruneFront(_, _, _)
PruneFront(q, t, span) ==
  IF Len(q) > 0 /\ t - q[1][2] > span THEN PruneFront(Tail(q), t, span) ELSE q

\* the entries counted by `for (v, t) in q.iter().rev() { if age <= span {..} else break }`
RECURSIVE RecentTail(_, _, _)
RecentTail(q, t, span) ==
  IF Len(q) > 0 /\ t - q[Len(q)][2] <= span
    THEN Append(RecentTail(SubSeq(q, 1, Len(q) - 1), t, span), q[Len(q)])
    ELSE << >>

CountOf(q, k) == Cardinality({i \in 1..Len(q) : q[i][1] = k})
Keys(q) == {q[i][1] : i \in 1..Len(q)}
MaxCount(q) == IF Len(q) = 0 THEN 0
               ELSE CHOOSE c \in 0..Len(q) :
                      /\ \E k \in Keys(q) : CountOf(q, k) = c
                      /\ \A k \in Keys(q) : CountOf(q, k) <= c
\* the keys `best` can end on: the HashMap is walked in an unspecified order and a
\* later key replaces best only with a strictly larger count
Modes(q) == {k \in Keys(q) : CountOf(q, k) = MaxCount(q)}

\* win_sorted[win_sorted.len() / 2] of the values of stable_vals
Median(q) ==
  LET idx == Len(q) \div 2
  IN CHOOSE m \in Keys(q) :
       /\ Cardinality({i \in 1..Len(q) : q[i][1] < m}) <= idx
       /\ Cardinality({i \in 1..Len(q) : q[i][1] <= m}) > idx

\* the alpha-beta tracker step on the smoothed value z (dt = 0.5 s)
TrackerStep(x0, v0, z, conf) ==
  LET gain_scale == IF conf < 70 THEN 60 ELSE IF conf < 80 THEN 80 ELSE 100
      a == (280 * gain_scale) \div 100
      b == (60 * gain_scale) \div 100
      x_pred == x0 + TDiv(v0, 2)
      r == z - x_pred
  IN [x |-> x_pred + TDiv(a * r, 1000), v |-> v0 + TDiv(b * r * 2, 1000)]

\* try_back of the hard gate: best is [bpm, err], err the deviation from base
TryBack(v, base, best) ==
  IF v >= 600 /\ v <= 2000 /\ Abs(v - base) < best.err
    THEN [bpm |-> v, err |-> Abs(v - base)]
    ELSE best

\* the hard gate: [allow, disp, outlier] for the candidate disp
HardGate(disp, conf, base_for_guard, trk) ==
  IF conf < 80 THEN [allow |-> FALSE, disp |-> disp, outlier |-> FALSE]
  ELSE IF IsNone(base_for_guard) THEN [allow |-> TRUE, disp |-> disp, outlier |-> FALSE]
  ELSE
    LET base == Get(base_for_guard)
        far == trk /\ Abs(disp - base) * 100 > 12 * base
        b0 == [bpm |-> disp, err |-> Abs(disp - base)]
        b1 == TryBack(disp \div 2, base, b0)
        b2 == TryBack(disp * 2, base, b1)
        b3 == TryBack((disp * 2) \div 3, base, b2)
        b4 == TryBack((disp * 3) \div 2, base, b3)
        rescued == b4.err * 100 <= 8 * base
        d1 == IF far /\ rescued THEN b4.bpm ELSE disp
        dev_out == far /\ ~rescued
        range_out == ~dev_out /\ (d1 > 1800 \/ d1 < 910)
    IN [allow |-> ~dev_out /\ ~range_out, disp |-> d1,
        outlier |-> dev_out \/ range_out]

\* the soft gate on the values of stable_vals
SoftGate(disp, conf, in_fast, allow_hard, sv, t) ==
  /\ ~allow_hard
  /\ conf >= (IF in_fast THEN 50 ELSE 55)
  /\ LET recent == RecentTail(sv, t, IF in_fast THEN 1000 ELSE 1500)
         near == Cardinality({i \in 1..Len(recent) : Abs(recent[i][1] - disp) <= 8})
     IN /\ Len(recent) >= 2
        /\ near >= (IF in_fast THEN 2 ELSE 3)
        /\ disp >= 600 /\ disp <= 1800

\* prev_int of the majority checks: the displayed integer, else the candidate's
PrevInt(slot, disp) == IF IsSome(slot) THEN RoundBpm(Get(slot).bpm) ELSE RoundBpm(disp)

\* the majority gate, best = (k, its count) found in recent_ints_cand over 1.2 s
MajorGate(k, cand, disp, in_fast, allow_hard, allow_soft, slot, t) ==
  /\ ~allow_hard /\ ~allow_soft
  /\ CountOf(RecentTail(cand, t, 1200), k) >= (IF in_fast THEN 2 ELSE 3)
  /\ k # PrevInt(slot, disp)
  /\ k >= 60 /\ k <= 180

\* a soft gate that always shows "tracking"
ShowStateSoftTracking(state, disp, in_fast, allow_soft, slot) ==
  IF allow_soft THEN "tracking" ELSE state

\* the state shown with a published value
ShowState(state, disp, in_fast, allow_soft, slot) ==
  LET disp_int == RoundBpm(disp)
      s1 == IF allow_soft THEN "uncertain" ELSE state
      s2 == IF allow_soft /\ last_hard_int = Some(disp_int)
              THEN (IF IsSome(last_hard_state) THEN Get(last_hard_state) ELSE "tracking")
              ELSE s1
      s3 == IF allow_soft /\ in_fast /\ IsSome(slot)
               /\ RoundBpm(Get(slot).bpm) # disp_int
              THEN "uncertain" ELSE s2
  IN s3

\* the second majority check: the mode k of recent_ints_cand over 1.5 s overrides
MajorityOverride(k, cand, disp, in_fast, slot, t) ==
  /\ CountOf(RecentTail(cand, t, 1500), k) >= (IF in_fast THEN 2 ELSE 3)
  /\ k # PrevInt(slot, disp)

\* a display that is written on every estimate hop
AdmittedAlways(allow_hard, allow_soft, allow_major) == TRUE

\* the condition of the publish block: one of the three gates admits
Admitted(allow_hard, allow_soft, allow_major) ==
  allow_hard \/ allow_soft \/ allow_major

\* a second majority check that replaces the value and keeps the state
PayloadKeepsState(k, cand, disp, conf, show_state, level, in_fast, slot, t) ==
  IF MajorityOverride(k, cand, disp, in_fast, slot, t)
    THEN DisplayBpm(k * 10, conf, show_state, level)
    ELSE DisplayBpm(disp, conf, show_state, level)

\* the payload of a published estimate
Payload(k, cand, disp, conf, show_state, level, in_fast, slot, t) ==
  IF MajorityOverride(k, cand, disp, in_fast, slot, t)
    THEN DisplayBpm(k * 10, conf, "uncertain", level)
    ELSE DisplayBpm(disp, conf, show_state, level)

\* obs.stale after an estimate hop: the lock the hop ran with (used), the lock it
\* leaves (kept), whether it entered fast relock by recovery or deviation
StaleAfter(stale, used, kept, entered) ==
  IF IsSome(used) /\ kept = used /\ (entered \/ stale = used) THEN used ELSE None

\* obs.steady after an estimate hop that shows the integer `shown` (None: no publish)
SteadyAfter(steady, raw_bpm, conf, shown, t) ==
  IF conf < 90 THEN None
  ELSE IF IsSome(steady) /\ Abs(raw_bpm - Get(steady).raw0) <= 2
    THEN LET r == Get(steady)
             changed == IsSome(shown) /\ IsSome(r.shown) /\ shown # r.shown
         IN Some([raw0 |-> r.raw0,
                  shown |-> IF IsSome(shown) THEN shown ELSE r.shown,
                  changed_at |-> IF changed THEN Some(t) ELSE r.changed_at,
                  twice |-> changed /\ IsSome(r.changed_at)
                            /\ t - Get(r.changed_at) < LockExpireMs])
    ELSE Some([raw0 |-> raw_bpm, shown |-> shown, changed_at |-> None,
               twice |-> FALSE])

\* an anchor that follows every confident value, whether tracking or not
AnchorUpdateUntracked(anchor, disp, conf, trk) ==
  IF conf < 85 THEN anchor
  ELSE IF disp >= 600 /\ disp <= 1600 THEN Some(disp) ELSE anchor

\* anchor_bpm after the hop
AnchorUpdate(anchor, disp, conf, trk) ==
  IF ~(trk /\ conf >= 85) THEN anchor
  ELSE IF IsSome(anchor)
    THEN IF Abs(disp - Get(anchor)) * 100 <= 8 * Get(anchor)
            /\ disp >= 600 /\ disp <= 1600
           THEN Some((Get(anchor) * 85 + disp * 15 + 50) \div 100)
           ELSE anchor
    ELSE IF disp >= 600 /\ disp <= 1600 THEN Some(disp) ELSE anchor

\* analysis step on which backend.process returns Some(raw)
\* (\E x \in {e} binds x to the value of e, computed once)
EstimateHop(raw_bpm, raw_conf, rms, win_sec) ==
  /\ pc = "fill"
  /\ window_len >= target_len
  /\ \E level \in {level_from_frames(rms)}, cur_db \in {DbOf(rms)},
        nf \in {NoiseFloorUpdate(noise_floor_rms, rms)} :
     /\ level >= SilenceLevel
     \* change detection against the previous estimate hop
     /\ \E rms_jump \in {IsSome(prev_rms_db) /\ Abs(cur_db - Get(prev_rms_db)) >= 6} :
        \E deadline1 \in {IF rms_jump THEN Some(now + FastRelockMs)
                          ELSE fast_relock_deadline},
           anchor1 \in {IF rms_jump THEN None ELSE anchor_bpm},
           stable1 \in {IF rms_jump THEN << >> ELSE stable_vals},
           conf \in {EffectiveConf(raw_conf, rms, nf)} :
        \E hy \in {Hysteresis(conf, win_sec)},
           in_fast \in {IsSome(deadline1) /\ now < Get(deadline1)},
           corrected \in {HarmonicCorrect(raw_bpm, anchor1)} :
        \E state \in {StateOf(hy.tracking, hy.ever_locked)},
           norm \in {OctaveNormalize(corrected)} :
        \E lk \in {IntegerLock([int |-> LOCK_INT, cnt |-> LOCK_CNT,
                                unlock |-> UNLOCK_CNT, last_show |-> LAST_SHOW_MS,
                                alt_int |-> ALT_INT, alt_cnt |-> ALT_CNT],
                               norm, conf, in_fast, force_clear_lock,
                               dev_from_lock_cnt, now)} :
        \E cand \in {PruneFront(Append(recent_ints_cand,
                                       << RoundBpm(lk.disp), now >>), now, 1500)},
           \* fast relock: recovery from a run of none hops, deviation from the lock
           none_recover \in {recent_none_flag /\ conf >= 50},
           dev_trigger \in {lk.dev >= 2} :
        \E deadline2 \in {IF none_recover \/ dev_trigger
                            THEN Some(now + FastRelockMs) ELSE deadline1},
           anchor2 \in {IF none_recover \/ dev_trigger THEN None ELSE anchor1},
           stable2 \in {IF none_recover \/ dev_trigger THEN << >> ELSE stable1},
           force2 \in {IF dev_trigger
                          /\ MaxCount(RecentTail(recent_ints, now, 1500)) >= 3
                         THEN TRUE ELSE lk.force} :
        \* smoothing
        \E sv \in {PruneFront(Append(stable2, << lk.disp, now >>), now, StableWinMs)} :
        \E mid \in {IF Len(sv) = 0 THEN lk.disp ELSE Median(sv)} :
        \E smoothed \in {IF IsSome(ema_disp)
                           THEN (Get(ema_disp) * 85 + mid * 15 + 50) \div 100
                           ELSE mid} :
        \E tr \in {TrackerStep(IF IsNone(trk_x) THEN smoothed ELSE Get(trk_x),
                               IF IsNone(trk_x) THEN 0 ELSE trk_v, smoothed, conf)},
           \* publish gates
           base_for_guard \in
             {IF IsSome(anchor2) THEN anchor2
              ELSE IF IsSome(CURRENT_BPM) /\ Get(CURRENT_BPM).bpm > 0
                     THEN Some(RoundBpm(Get(CURRENT_BPM).bpm) * 10) ELSE None} :
        \E hg \in {HardGate(lk.disp, conf, base_for_guard, hy.tracking)} :
        \E disp \in {hg.disp}, allow_hard \in {hg.allow} :
        \E allow_soft \in {SoftGate(disp, conf, in_fast, allow_hard, sv, now)},
           show_state \in {ShowState(state, disp, in_fast,
                                     SoftGate(disp, conf, in_fast, allow_hard, sv, now),
                                     CURRENT_BPM)} :
        \E kM \in Modes(RecentTail(cand, now, 1200)),
           kP \in Modes(RecentTail(cand, now, 1500)) :
        \E allow_major \in {MajorGate(kM, cand, disp, in_fast, allow_hard,
                                      allow_soft, CURRENT_BPM, now)},
           payload \in {Payload(kP, cand, disp, conf, show_state, level, in_fast,
                                CURRENT_BPM, now)} :
        \E publish \in {Admitted(allow_hard, allow_soft, allow_major)} :
        \E steady2 \in {SteadyAfter(obs.steady, raw_bpm, conf,
                                    IF publish THEN Some(RoundBpm(payload.bpm))
                                    ELSE None, now)} :
             /\ none_cnt' = 0
             /\ prev_rms_db' = Some(cur_db)
             /\ noise_floor_rms' = nf
             /\ hi_cnt' = hy.hi_cnt /\ lo_cnt' = hy.lo_cnt
             /\ tracking' = hy.tracking /\ ever_locked' = hy.ever_locked
             /\ LOCK_INT' = lk.lock.int /\ LOCK_CNT' = lk.lock.cnt
             /\ UNLOCK_CNT' = lk.lock.unlock /\ LAST_SHOW_MS' = lk.lock.last_show
             /\ ALT_INT' = lk.lock.alt_int /\ ALT_CNT' = lk.lock.alt_cnt
             /\ recent_ints_cand' = cand
             /\ fast_relock_deadline' = deadline2
             /\ recent_none_flag' = IF none_recover THEN FALSE ELSE recent_none_flag
             /\ dev_from_lock_cnt' = IF dev_trigger THEN 0 ELSE lk.dev
             /\ force_clear_lock' = force2
             /\ stable_vals' = sv
             /\ ema_disp' = IF conf < 80 THEN Some(tr.x) ELSE Some(smoothed)
             /\ trk_x' = Some(tr.x) /\ trk_v' = tr.v
             /\ IF publish
                  THEN /\ Publish(payload)
                       /\ last_hard_int' = IF allow_soft THEN last_hard_int
                                           ELSE Some(RoundBpm(disp))
                       /\ last_hard_state' = IF allow_soft THEN last_hard_state
                                             ELSE Some(state)
                       /\ recent_ints' =
                            PruneFront(Append(recent_ints,
                                              << RoundBpm(payload.bpm), now >>),
                                       now, 1500)
                  ELSE UNCHANGED << outVars, last_hard_int, last_hard_state,
                                    recent_ints >>
             /\ anchor_bpm' = AnchorUpdate(anchor2, disp, conf, hy.tracking)
             /\ window_len' = window_len - hop_len
             /\ pc' = "top"
             /\ hop' = [kind |-> "estimate", level |-> level, popped |-> hop_len,
                        estimator_called |-> TRUE, prev |-> CURRENT_BPM,
                        frames |-> frames_len,
                        cur_db |-> cur_db, prev_hop_db |-> obs.last_db,
                        tracking_before |-> tracking, raw |-> raw_bpm,
                        conf |-> conf, state |-> state, in_fast |-> in_fast,
                        corrected |-> corrected, norm |-> norm,
                        lock_used |-> lk.used, cnt_used |-> lk.used_cnt,
                        unlock_used |-> lk.used_unlock, alt_used |-> lk.used_alt,
                        snapped |-> lk.snapped,
                        locked |-> lk.disp, disp |-> disp,
                        rms_jump |-> rms_jump, none_recover |-> none_recover,
                        dev_trigger |-> dev_trigger,
                        outlier |-> hg.outlier, allow_hard |-> allow_hard,
                        allow_soft |-> allow_soft, allow_major |-> allow_major,
                        published |-> IF publish THEN Some(payload) ELSE None,
                        anchor_before |-> anchor_bpm, anchor_in |-> anchor1,
                        override |-> MajorityOverride(kP, cand, disp, in_fast,
                                                      CURRENT_BPM, now),
                        hard_int |-> last_hard_int, hard_state |-> last_hard_state,
                        expired |-> (IsSome(LAST_SHOW_MS)
                                     /\ now - Get(LAST_SHOW_MS) > LockExpireMs),
                        lock_before |-> LOCK_INT, stale |-> obs.stale,
                        flips_twice |-> (IsSome(steady2) /\ Get(steady2).twice)]
             /\ count' = [count EXCEPT !.hops = @ + 1]
             /\ obs' = [none_run |-> 0,
                        trail |-> Trail(obs.trail,
                                        IF conf >= ThrHi(win_sec) THEN "hi"
                                        ELSE IF conf <= ThrLo(win_sec) THEN "lo"
                                        ELSE "mid"),
                        stale |-> StaleAfter(obs.stale, lk.used, lk.lock.int,
                                             none_recover \/ dev_trigger),
                        steady |-> steady2,
                        starved |-> obs.starved, fed |-> TRUE,
                        last_db |-> Some(cur_db),
                        last_short |-> obs.last_short,
                        last_both |-> obs.last_both, key_run |-> obs.key_run]
             /\ UNCHANGED << now, sr_usize, no_data_ms, RESET_REQUESTED, capVars, startVars, estVars >>

\* ------------------------------------------------------------ input sets
\* raw tempo, raw confidence (effective: 0.24, 0.72, 0.95), window RMS
BpmSet == {1274, 1276}
ConfSet == {18, 60, 100}
RmsSet == {120, 10000}
WinSecSet == {20}
SrSet == {InitSampleRate, InitSampleRate + 2}
\* the time, in ms, that n samples take to arrive at the current rate
FillMs(n) == (n * 1000) \div sr_usize
\* the wall-clock time by which the missing samples of the window have arrived
DtSet == {FillMs(target_len - window_len)}

\* commands and the device interleave freely with the loop; a capture stall
\* begins only while the window is empty and runs undisturbed to its end
Next ==
  \/ count.resets < MaxResets /\ no_data_ms = 0 /\ reset_backend
  \/ LoopTop
  \/ \E sr \in SrSet :
       count.sr_changes < MaxSrChanges /\ no_data_ms = 0 /\ SampleRateChange(sr)
  \/ \E dt \in DtSet : no_data_ms = 0 /\ RecvBuf(target_len - window_len, dt)
  \/ (no_data_ms > 0 \/ (count.stalls < MaxStalls /\ window_len = 0)) /\ RecvTimeout
  \/ \E rms \in RmsSet : count.hops < MaxHops /\ SilentHop(rms)
  \/ \E rms \in RmsSet : count.hops < MaxHops /\ NoneHop(rms)
  \/ \E b \in BpmSet, c \in ConfSet, rms \in RmsSet, w \in WinSecSet :
       count.hops < MaxHops /\ EstimateHop(b, c, rms, w)

Spec == Init /\ [][Next]_vars

\* ---------------------------------------- octave folding over the whole range
\* every raw tempo of [60, 90] and [181, 200] BPM, one loud confident estimate
FoldBpmSet == (600..900) \cup (1810..2000)

NextFold ==
  \/ LoopTop
  \/ \E dt \in DtSet : RecvBuf(target_len - window_len, dt)
  \/ \E b \in FoldBpmSet, w \in WinSecSet :
       count.hops < MaxFoldHops /\ EstimateHop(b, 100, 10000, w)

SpecFold == Init /\ [][NextFold]_vars

\* --------------------------- the integer lock over a longer stretch of hops
\* a tempo near 128 and one at 150, effective confidences 0.72 and 0.84
LockBpmSet == {1276, 1500}
LockConfSet == {60, 70}

NextLock ==
  \/ LoopTop
  \/ \E dt \in DtSet : RecvBuf(target_len - window_len, dt)
  \/ count.hops < MaxLockHops /\ SilentHop(120)
  \/ count.hops < MaxLockHops /\ NoneHop(10000)
  \/ \E b \in LockBpmSet, c \in LockConfSet, w \in WinSecSet :
       count.hops < MaxLockHops /\ EstimateHop(b, c, 10000, w)

SpecLock == Init /\ [][NextLock]_vars

\* ------------------------------------ the hysteresis over five hops, one tempo
\* effective confidences 0.24 (below lo), 0.45 (above hi, below every gate),
\* 0.72 (soft gate), 0.95 (hard gate)
RunConfSet == {18, 35, 60, 100}

NextRun ==
  \/ LoopTop
  \/ \E dt \in DtSet : RecvBuf(target_len - window_len, dt)
  \/ count.hops < MaxRunHops /\ SilentHop(120)
  \/ count.hops < MaxRunHops /\ NoneHop(10000)
  \/ \E c \in RunConfSet, w \in WinSecSet :
       count.hops < MaxRunHops /\ EstimateHop(1274, c, 10000, w)

SpecRun == Init /\ [][NextRun]_vars

\* ------------------------------- the lock and the gates on confident estimates
\* 90.4 BPM (below the range) and a tempo wavering about 127.5 BPM;
\* effective confidences 0.24 and 0.95
GateBpmSet == {904, 1274, 1276}
GateConfSet == {18, 100}

NextGate ==
  \/ LoopTop
  \/ \E dt \in DtSet : RecvBuf(target_len - window_len, dt)
  \/ \E b \in GateBpmSet, c \in GateConfSet, w \in WinSecSet :
       count.hops < MaxGateHops /\ EstimateHop(b, c, 10000, w)

SpecGate == Init /\ [][NextGate]_vars

\* ------------------- resets, rate changes and stalls between the hops of a run
\* one loud tempo with effective confidence 0.95, silence, hops without an
\* estimate; once the run has locked it is disturbed by a reset request that
\* arrives between two hops, a change of the sample rate, or a capture stall
Events == count.resets + count.sr_changes + count.stalls

NextEvents ==
  \/ Events < MaxEvents /\ ever_locked /\ pc = "top" /\ reset_backend
  \/ LoopTop
  \/ \E sr \in SrSet :
       Events < MaxEvents /\ ever_locked /\ no_data_ms = 0 /\ SampleRateChange(sr)
  \/ \E dt \in DtSet : no_data_ms = 0 /\ RecvBuf(target_len - window_len, dt)
  \/ (no_data_ms > 0 \/ (Events < MaxEvents /\ ever_locked)) /\ RecvTimeout
  \/ count.hops < MaxEventHops /\ SilentHop(120)
  \/ count.hops < MaxEventHops /\ NoneHop(10000)
  \/ \E w \in WinSecSet : count.hops < MaxEventHops /\ EstimateHop(1274, 100, 10000, w)

SpecEvents == Init /\ [][NextEvents]_vars

\* ------------------------------ reset requests around a change of loudness
\* one tempo with effective confidence 0.72 or 0.95 on windows of -20 dB and
\* -8 dB; reset_backend is called at any moment, up to twice
ResetConfSet == {60, 100}
ResetRmsSet == {10000, 40000}

NextReset ==
  \/ count.resets < MaxResetCalls /\ reset_backend
  \/ LoopTop
  \/ \E dt \in DtSet : RecvBuf(target_len - window_len, dt)
  \/ \E c \in ResetConfSet, rms \in ResetRmsSet, w \in WinSecSet :
       count.hops < MaxResetHops /\ EstimateHop(1274, c, rms, w)

SpecReset == Init /\ [][NextReset]_vars

\* ------------------------------------- a capture source that delivers no audio
\* the queue yields nothing (a stalled device), or the empty keep-alive buffers
\* that the silent fallback of the capture source pushes every 50 or 100 ms;
\* once a keep-alive has arrived the next one is never late
KeepAliveSet == {50, 100}
KeepAliveSeen == obs.starved # no_data_ms

NextStall ==
  \/ LoopTop
  \/ /\ now < MaxStallNow
     /\ KeepAliveSeen => \E k \in KeepAliveSet : no_data_ms + QueueTimeoutMs < k
     /\ RecvTimeout
  \/ \E k \in KeepAliveSet :
       /\ now < MaxStallNow
       /\ no_data_ms < k /\ no_data_ms + QueueTimeoutMs >= k
       /\ RecvBuf(0, k - no_data_ms)

SpecStall == Init /\ [][NextStall]_vars

\* ---------------------------------- the capture source, the queue, the window
\* the source pushes buffers of BufLen samples, changes its device once and may
\* end; the analyzer takes what the queue holds, waits at most twice in a row
\* on an open empty queue, and runs silent hops on its window
NextQueue ==
  \/ src.produced < MaxBuffers * BufLen /\ Push(BufLen)
  \/ \E r \in SrSet : src.dev_sr = InitSampleRate /\ DeviceChange(r)
  \/ Close
  \/ LoopTop
  \/ SrRecvSame
  \/ RecvFrame
  \/ /\ frames_q = << >> /\ tx_open
     /\ no_data_ms < 2 * QueueTimeoutMs
     /\ (no_data_ms = 0 => count.stalls < MaxStalls)
     /\ RecvTimeout
  \/ /\ frames_q = << >> /\ ~tx_open
     /\ (no_data_ms = 0 => count.stalls < MaxStalls)
     /\ RecvErr(0)
  \/ SilentHop(120)

SpecQueue == Init /\ [][NextQueue]_vars

\* ------------------------------- the rate of the samples that are analysed
MaxRateBufs == 6
MaxRateHops == 2
\* the source pushes buffers of BufLen samples and changes its device once; the
\* analyzer takes what the queue holds and runs the estimator on full windows
NextRate ==
  \/ src.produced < MaxRateBufs * BufLen /\ Push(BufLen)
  \/ \E r \in SrSet : src.dev_sr = InitSampleRate /\ DeviceChange(r)
  \/ LoopTop
  \/ RecvFrame
  \/ \E w \in WinSecSet : count.hops < MaxRateHops /\ EstimateHop(1274, 100, 10000, w)

SpecRate == Init /\ [][NextRate]_vars

\* --------------------------- the noise floor under input of constant loudness
MaxFloorHops == 52
\* hops numbered above LateHop count as late
LateHop == 50
\* the window's RMS, -20 dB or -8 dB, the same on every hop of a run; the raw
\* confidence is 1.0 on every hop
FloorRmsSet == {10000, 40000}

NextFloor ==
  \/ LoopTop
  \/ \E dt \in DtSet : RecvBuf(target_len - window_len, dt)
  \/ \E rms \in FloorRmsSet, w \in WinSecSet :
       /\ count.hops < MaxFloorHops
       /\ IsSome(obs.last_db) => DbOf(rms) = Get(obs.last_db)
       /\ EstimateHop(1274, 100, rms, w)

\* the analyzer loop never stops while it has input
SpecFloor == Init /\ [][NextFloor]_vars /\ WF_vars(NextFloor)

\* ------------------------------------------- the estimator on a steady stream
MaxEstHops == 4
\* candidates of 120, 122 and 130 BPM with confidence 0.50 or 0.80; a slice
\* with no silence whose crop is 1.6 s long, or one with 3 silent samples and a
\* crop too short to be used
EstBpmSet == {1200, 1220, 1300}
EstConfSet == {50, 80}
EvalSet ==
  {[pass |-> FALSE, bpm |-> 0, conf |-> 0, trim |-> 0, crop |-> 0]} \cup
  {[pass |-> TRUE, bpm |-> b, conf |-> c, trim |-> g[1], crop |-> g[2]] :
     b \in EstBpmSet, c \in EstConfSet, g \in {<< 0, 8 >>, << 3, 4 >>}}

\* the source pushes a buffer when the analyzer waits on an empty queue
NextEstimator ==
  \/ frames_q = << >> /\ pc = "fill" /\ window_len < target_len /\ Push(BufLen)
  \/ LoopTop
  \/ RecvFrame
  \/ \E jump \in BOOLEAN, el \in EvalSet, es \in EvalSet :
       count.hops < MaxEstHops /\ Process(jump, el, es)

SpecEstimator == Init /\ [][NextEstimator]_vars

\* ------------------------------------------------- the key tracker on its own
MaxKeyUpdates == 7
\* raw estimates as KeyAnalyzer builds them: without a key while warming up
\* (analyzing) or on atonal audio; with a key, tracking from confidence 0.55,
\* uncertain from 0.35 and analyzing below, where confidence is
\* 0.35 * score / 0.70 + 0.65 * gap / 0.15, both quotients clamped to 1.
\* For each of C, Am and G: one that meets every threshold, one that meets
\* those of an ordinary switch but not of a mode switch, one that can lock but
\* not switch (gap), and one that only counts.
KeySet == {"C", "Am", "G"}
RawKeySet ==
  {[key |-> NA_KEY, state |-> st, confidence |-> 0, gap |-> 0] :
     st \in {"atonal", "analyzing"}} \cup
  {[key |-> "C", state |-> "analyzing", confidence |-> 30, gap |-> 2]} \cup
  {[key |-> k, state |-> "tracking", confidence |-> c[1], gap |-> c[2]] :
     k \in KeySet, c \in {<< 60, 10 >>, << 55, 10 >>}} \cup
  {[key |-> k, state |-> "uncertain", confidence |-> c[1], gap |-> c[2]] :
     k \in KeySet, c \in {<< 50, 5 >>, << 40, 5 >>}}
\* updates follow each other after 1 s, or after more than the hold time
KeyDtSet == {1000, 4500}

NextKey ==
  \E raw \in RawKeySet, dt \in KeyDtSet :
    count.hops < MaxKeyUpdates /\ KeyUpdate(raw, dt)

SpecKey == Init /\ [][NextKey]_vars

\* ------------------------------------- the lock counter on confident hops
\* 126.6, 127.5 and 127.6 BPM (0.4, 0.5 and 0.4 BPM from the nearest integer,
\* 127 or 128); effective confidences 0.84 and 0.95
SnapBpmSet == {1266, 1275, 1276}
SnapConfSet == {70, 100}

NextSnap ==
  \/ LoopTop
  \/ \E dt \in DtSet : RecvBuf(target_len - window_len, dt)
  \/ \E b \in SnapBpmSet, c \in SnapConfSet, w \in WinSecSet :
       count.hops < MaxSnapHops /\ EstimateHop(b, c, 10000, w)

SpecSnap == Init /\ [][NextSnap]_vars

\* ----------------------------------------------------- the life of the anchor
\* 127.4 and 140.0 BPM (more than 8 % apart), effective confidences 0.72 and
\* 0.95, windows of -20 dB and -8 dB; once an anchor exists the run is disturbed
\* by one reset request between two hops or one change of the sample rate
AnchorBpmSet == {1274, 1400}
AnchorConfSet == {60, 100}
AnchorRmsSet == {10000, 40000}

NextAnchor ==
  \/ Events < MaxEvents /\ IsSome(anchor_bpm) /\ pc = "top" /\ reset_backend
  \/ LoopTop
  \/ \E sr \in SrSet :
       Events < MaxEvents /\ IsSome(anchor_bpm) /\ SampleRateChange(sr)
  \/ \E dt \in DtSet : RecvBuf(target_len - window_len, dt)
  \/ \E b \in AnchorBpmSet, c \in AnchorConfSet, rms \in AnchorRmsSet,
        w \in WinSecSet :
       count.hops < MaxAnchorHops /\ EstimateHop(b, c, rms, w)

SpecAnchor == Init /\ [][NextAnchor]_vars

\* ------------------------------- harmonic correction against an anchor
\* confident hops at 100.0 or 150.0 BPM establish tracking and an anchor; the
\* last hop of the run brings any raw tempo of [60, 200] BPM
HarmBaseSet == {1000, 1500}
HarmBpmSet == 600..2000

NextHarm ==
  \/ LoopTop
  \/ \E dt \in DtSet : RecvBuf(target_len - window_len, dt)
  \/ \E b \in HarmBaseSet, w \in WinSecSet :
       count.hops + 1 < MaxHarmHops /\ EstimateHop(b, 100, 10000, w)
  \/ \E b \in HarmBpmSet, w \in WinSecSet :
       count.hops + 1 = MaxHarmHops /\ EstimateHop(b, 100, 10000, w)

SpecHarm == Init /\ [][NextHarm]_vars

\* ------------------------------- buffers of varying size and the window
\* buffers of one or three samples arrive as fast as the rate delivers them,
\* so the window may overshoot 2*SR; the rate changes at most once
BufSizeSet == {1, 3}

NextWindow ==
  \/ LoopTop
  \/ \E sr \in SrSet : count.sr_changes < MaxSrChanges /\ SampleRateChange(sr)
  \/ \E n \in BufSizeSet : RecvBuf(n, FillMs(n))
  \/ count.hops < MaxWindowHops /\ SilentHop(120)
  \/ count.hops < MaxWindowHops /\ NoneHop(10000)
  \/ \E w \in WinSecSet :
       count.hops < MaxWindowHops /\ EstimateHop(1274, 100, 10000, w)

SpecWindow == Init /\ [][NextWindow]_vars

\* ----------------------------------------------- the start of the analyzer
\* start_capture is invoked up to MaxCalls times, the calls interleaving freely;
\* once spawned the analyzer fills its window and runs silent hops
NextStart ==
  \/ \E c \in 1..MaxCalls : start_capture_main(c)
  \/ analyzers > 0 /\ LoopTop
  \/ \E dt \in DtSet : analyzers > 0 /\ RecvBuf(target_len - window_len, dt)
  \/ analyzers > 0 /\ count.hops < MaxStartHops /\ SilentHop(120)

SpecStart == InitStart /\ [][NextStart]_vars

\* the same calls served by the start_capture of commands.rs
NextStartGuarded ==
  \/ \E c \in 1..MaxCalls : start_capture_swap(c)
  \/ \E c \in 1..MaxCalls : start_capture_spawn(c)
  \/ analyzers > 0 /\ LoopTop
  \/ \E dt \in DtSet : analyzers > 0 /\ RecvBuf(target_len - window_len, dt)
  \/ analyzers > 0 /\ count.hops < MaxStartHops /\ SilentHop(120)

SpecStartGuarded == InitStart /\ [][NextStartGuarded]_vars

\* ------------------------------------------------------------- properties
\* a step of the analyzer that is an analysis hop
HopStep == pc = "fill" /\ pc' = "top"

\* C1: every display value in the display slot, and every bpm_update payload,
\* whichever branch or command wrote it, has confidence in [0, 0.95] and level
\* in [0, 1].
C1_ConfidenceAndLevelInRange ==
  \A o \in {CURRENT_BPM, bpm_update} :
    IsSome(o) => Get(o).confidence \in 0..95 /\ Get(o).level \in 0..100

\* an estimate hop has published a value whose confidence sits on the cap
C1_Witness ==
  /\ hop.kind = "estimate"
  /\ IsSome(hop.published)
  /\ CURRENT_BPM = hop.published
  /\ Get(CURRENT_BPM).confidence = 95

\* C2: a hop whose window level is below 0.03 publishes {0, 0, analyzing, level},
\* runs neither branch of the estimator's result, and drops exactly SR/2 samples
\* from the window.
C2_SilentHopPublishesZeroAndAdvances ==
  [][(HopStep /\ hop'.level < 3) =>
       /\ CURRENT_BPM' = Some(DisplayBpm(0, 0, "analyzing", hop'.level))
       /\ bpm_update' = CURRENT_BPM'
       /\ ~hop'.estimator_called
       /\ none_cnt' = none_cnt /\ prev_rms_db' = prev_rms_db
       /\ window_len' = window_len - (sr_usize \div 2)]_vars

\* a silent hop on a window that is quiet but not empty has taken place
C2_Witness ==
  /\ hop.kind = "silent"
  /\ hop.level = 1
  /\ CURRENT_BPM = Some(DisplayBpm(0, 0, "analyzing", 1))
  /\ window_len = target_len - sr_usize \div 2

\* C3 (as the code has it): a none hop publishes the bpm of the display value
\* held just before (0 when the slot is empty), confidence 0, and state
\* uncertain when ever_locked is set and the slot held a value, analyzing
\* otherwise; never tracking.
C3_NoneHopPayload ==
  [][(HopStep /\ hop'.kind = "none") =>
       /\ IsSome(CURRENT_BPM') /\ bpm_update' = CURRENT_BPM'
       /\ Get(CURRENT_BPM').bpm =
            (IF IsSome(CURRENT_BPM) THEN Get(CURRENT_BPM).bpm ELSE 0)
       /\ Get(CURRENT_BPM').confidence = 0
       /\ Get(CURRENT_BPM').state =
            (IF ever_locked' /\ IsSome(CURRENT_BPM) THEN "uncertain" ELSE "analyzing")
       /\ Get(CURRENT_BPM').state # "tracking"]_vars

\* a none hop has taken place while the tracking flag was true and a tempo shown
C3_Witness ==
  /\ hop.kind = "none"
  /\ hop.tracking_before
  /\ IsSome(hop.prev) /\ Get(hop.prev).state = "tracking"
  /\ CURRENT_BPM = Some(DisplayBpm(Get(hop.prev).bpm, 0, "uncertain", hop.level))

\* C3 as stated: the state of a none hop is uncertain whenever ever_locked is
\* set, analyzing otherwise.
C3_StateFromEverLockedAlone ==
  [][(HopStep /\ hop'.kind = "none") =>
       /\ IsSome(CURRENT_BPM')
       /\ Get(CURRENT_BPM').bpm =
            (IF IsSome(CURRENT_BPM) THEN Get(CURRENT_BPM).bpm ELSE 0)
       /\ Get(CURRENT_BPM').confidence = 0
       /\ Get(CURRENT_BPM').state =
            (IF ever_locked' THEN "uncertain" ELSE "analyzing")]_vars

\* C4 as stated: tracking goes from false to true only on the third of three
\* consecutive analysis hops with confidence >= 0.40, and from true to false on
\* an estimate hop only on the second of two consecutive analysis hops with
\* confidence <= 0.25; a none hop in between breaks the run.
C4_TrackingOnlyAfterConsecutiveHops ==
  [][(HopStep /\ hop'.kind = "estimate") =>
       /\ (~tracking /\ tracking') =>
            (hop'.conf >= 40 /\ obs.trail = << "hi", "hi" >>)
       /\ (tracking /\ ~tracking') =>
            (hop'.conf <= 25 /\ Len(obs.trail) >= 1
             /\ obs.trail[Len(obs.trail)] = "lo")]_vars

\* C5 (as the code has it): a value admitted by the hard or the majority gate
\* and not overridden carries the state of the flags; an overridden value is
\* uncertain; a value admitted by the soft gate is uncertain, or carries the
\* state of the last hard display when its integer is the same. So tracking is
\* published only when the tracking flag is true or the soft gate repeats a
\* last hard state of tracking.
C5_PublishedState ==
  (hop.kind = "estimate" /\ IsSome(hop.published)) =>
    LET p == Get(hop.published)
        soft_same == /\ hop.allow_soft
                     /\ hop.hard_int = Some(RoundBpm(hop.disp))
                     /\ IsSome(hop.hard_state)
    IN /\ hop.override => p.state = "uncertain"
       /\ (~hop.allow_soft /\ ~hop.override) => p.state = hop.state
       /\ (hop.allow_soft /\ ~hop.override) =>
            (p.state = "uncertain" \/ (soft_same /\ p.state = Get(hop.hard_state)))
       /\ p.state = "tracking" =>
            (hop.state = "tracking"
             \/ (soft_same /\ hop.hard_state = Some("tracking")))

\* the soft gate has published the state of the last hard display, which is not
\* the state of the flags
C5_Witness ==
  /\ hop.kind = "estimate"
  /\ IsSome(hop.published)
  /\ hop.allow_soft
  /\ Get(hop.published).state # "uncertain"
  /\ Get(hop.published).state # hop.state

\* C5 as stated: tracking is published only when the tracking flag is true, and
\* with the flag false the published state is uncertain if ever_locked and
\* analyzing otherwise.
C5_StateFollowsFlags ==
  (hop.kind = "estimate" /\ IsSome(hop.published)) =>
    /\ Get(hop.published).state = "tracking" => hop.state = "tracking"
    /\ hop.state # "tracking" => Get(hop.published).state = hop.state

\* C6 as stated: none_cnt is the length of the uninterrupted run of none hops,
\* a hop of any other kind (estimate or silence) restarting it, so that it
\* reaches six, and recovery is marked, only on the sixth none hop in a row.
C6_NoneCntCountsUninterruptedRun ==
  /\ none_cnt = obs.none_run
  /\ (hop.kind = "none" /\ none_cnt >= 6) => obs.none_run >= 6

\* C7 (as the code has it): without an anchor, every tempo in [60, 90] and
\* [182, 200] is normalized into [91, 180] and the result is the tempo doubled
\* or halved; 90 becomes 180.
C7_FoldIntoRange ==
  (/\ hop.kind = "estimate"
   /\ IsNone(hop.anchor_in)
   /\ (hop.corrected \in 600..900 \/ hop.corrected \in 1820..2000)) =>
    /\ hop.norm \in 910..1800
    /\ (hop.norm = hop.corrected * 2 \/ hop.norm = hop.corrected \div 2)
    /\ hop.corrected = 900 => hop.norm = 1800

\* the estimate at exactly 90 BPM has been normalized to 180
C7_Witness ==
  /\ hop.kind = "estimate"
  /\ IsNone(hop.anchor_in)
  /\ hop.corrected = 900
  /\ hop.norm = 1800

\* C7 as stated: the same for every tempo in [60, 90] and [181, 200].
C7_FoldIntoRangeFrom181 ==
  (/\ hop.kind = "estimate"
   /\ IsNone(hop.anchor_in)
   /\ (hop.corrected \in 600..900 \/ hop.corrected \in 1810..2000)) =>
    /\ hop.norm \in 910..1800
    /\ (hop.norm = hop.corrected * 2 \/ hop.norm = hop.corrected \div 2)

\* C8 as stated: a candidate that fails the outlier rules is not published on
\* that hop; the slot keeps its value and nothing is emitted.
C8_OutlierNeverPublished ==
  [][(HopStep /\ hop'.kind = "estimate" /\ hop'.outlier) =>
       (hop'.published = None /\ UNCHANGED << CURRENT_BPM, bpm_update >>)]_vars

\* C9 as stated: within a run of estimate hops with confidence >= 0.90 whose raw
\* tempo stays within 0.2 BPM, the published integer does not change twice
\* within 10 s.
C9_LockMonotonicity ==
  hop.kind = "estimate" => ~hop.flips_twice

\* C10 as stated: a lock held when fast relock was entered (or a reset
\* consumed) never snaps a later display, and a lock last shown more than 10 s
\* ago is not in effect.
C10_StaleLockNeverSteers ==
  hop.kind = "estimate" =>
    /\ ~(/\ IsSome(hop.stale) /\ hop.lock_used = hop.stale
         /\ hop.snapped /\ hop.conf < 90
         /\ RoundBpm(hop.norm) = Get(hop.stale))
    /\ hop.expired => hop.lock_used = None

\* C11 as stated: a silent hop clears tracking, hi_cnt, lo_cnt and the integer
\* lock, so the estimate hop that follows a silent hop finds no lock to snap to.
C11_SilentHopClearsLock ==
  /\ hop.kind = "silent" =>
       (~tracking /\ hi_cnt = 0 /\ lo_cnt = 0 /\ LOCK_INT = None /\ LOCK_CNT = 0)
  /\ (hop.kind = "estimate" /\ Len(obs.trail) = 2 /\ obs.trail[1] = "silent") =>
       hop.lock_used = None

\* C12 (as the code has it): ever_locked is set exactly when tracking is
\* entered; it is cleared by every consumed reset request, sample-rate change,
\* silent hop and 1.5 s capture stall and by a none hop that brings none_cnt to
\* six or more, and by nothing else.
C12_EverLockedSetAndCleared ==
  [][/\ (~ever_locked /\ ever_locked') =>
          (HopStep /\ hop'.kind = "estimate" /\ ~tracking /\ tracking')
     /\ (~tracking /\ tracking') => ever_locked'
     /\ (ever_locked /\ ~ever_locked') =>
          \/ hop'.kind \in {"reset", "sr_change", "silent", "stall"}
          \/ hop'.kind = "none" /\ none_cnt' >= NoneLimit
     /\ (hop' # hop /\ hop'.kind \in {"reset", "sr_change", "silent", "stall"}) =>
          ~ever_locked'
     /\ (HopStep /\ hop'.kind = "none" /\ none_cnt' >= NoneLimit) => ~ever_locked']_vars

\* the sixth none hop in a row has cleared ever_locked while tracking was on
C12_Witness ==
  /\ hop.kind = "none"
  /\ hop.tracking_before
  /\ none_cnt = NoneLimit
  /\ ~ever_locked /\ ~tracking

\* C12 as stated: ever_locked is cleared only by a consumed reset request or a
\* sample-rate change.
C12_ClearedOnlyByFullReset ==
  [][(ever_locked /\ ~ever_locked') => hop'.kind \in {"reset", "sr_change"}]_vars

\* C13 as stated: when the analyzer consumes a reset request, every item of its
\* state is back at its initial value (the integer lock at the latest before
\* its next use, the estimator as newly built) and the zeroed display is
\* published.
C13_ResetRestoresInitialState ==
  hop.kind = "reset" =>
    /\ window_len = 0
    /\ anchor_bpm = None /\ stable_vals = << >> /\ ema_disp = None
    /\ recent_ints = << >> /\ recent_ints_cand = << >>
    /\ (force_clear_lock \/ (LOCK_INT = None /\ LOCK_CNT = 0 /\ ALT_INT = None))
    /\ trk_x = None /\ trk_v = 0
    /\ hi_cnt = 0 /\ lo_cnt = 0 /\ ~tracking /\ ~ever_locked /\ none_cnt = 0
    /\ dev_from_lock_cnt = 0 /\ ~recent_none_flag
    /\ last_hard_int = None /\ last_hard_state = None
    /\ prev_rms_db = None
    /\ noise_floor_rms = InitNoiseFloor
    /\ fast_relock_deadline = None
    /\ ~obs.fed
    /\ bpm_update = Some(ZeroDisplay)

\* what the reset block of the loop head assigns, and the display it publishes
ResetCleared ==
  /\ window_len = 0
  /\ ema_disp = None /\ prev_rms_db = None /\ anchor_bpm = None
  /\ stable_vals = << >>
  /\ hi_cnt = 0 /\ lo_cnt = 0 /\ ~tracking /\ ~ever_locked /\ none_cnt = 0
  /\ dev_from_lock_cnt = 0 /\ force_clear_lock /\ ~recent_none_flag
  /\ last_hard_int = None /\ last_hard_state = None
  /\ trk_x = None /\ trk_v = 0
  /\ recent_ints = << >> /\ recent_ints_cand = << >>
  /\ noise_floor_rms = InitNoiseFloor
  /\ CURRENT_BPM = Some(ZeroDisplay) /\ bpm_update = Some(ZeroDisplay)
  /\ ~RESET_REQUESTED

\* C14: reset_backend raises the flag and writes the zeroed display without
\* touching the analyzer; called again before the analyzer has consumed the
\* flag (and before a hop has written the slot) it changes nothing; and the
\* analyzer's consumption of the flag gives the items it resets the same values
\* whether one call or two preceded it, and leaves the other items as they were.
C14_ResetIdempotent ==
  [][/\ (count'.resets = count.resets + 1) =>
          /\ RESET_REQUESTED'
          /\ CURRENT_BPM' = Some(ZeroDisplay) /\ bpm_update' = Some(ZeroDisplay)
          /\ UNCHANGED analyzerVars
          /\ (RESET_REQUESTED /\ CURRENT_BPM = Some(ZeroDisplay)
                /\ bpm_update = Some(ZeroDisplay)) =>
               UNCHANGED << RESET_REQUESTED, CURRENT_BPM, bpm_update >>
     /\ (hop' # hop /\ hop'.kind = "reset") =>
          /\ RESET_REQUESTED
          /\ ResetCleared'
          /\ UNCHANGED << sr_usize, no_data_ms, fast_relock_deadline, lockVars >>]_vars

\* the analyzer has consumed the flag after the second of two calls, hops done
C14_Witness ==
  /\ count.resets = 2
  /\ count.hops >= 2
  /\ hop.kind = "reset"
  /\ ResetCleared

\* C15 as stated: a change of the sample rate rebuilds the estimator, empties
\* the window, returns every item of stabilizer state to its initial value and
\* publishes the zeroed display.
C15_RateChangeClearsAllState ==
  hop.kind = "sr_change" =>
    /\ window_len = 0 /\ ~obs.fed
    /\ anchor_bpm = None /\ stable_vals = << >> /\ ema_disp = None
    /\ hi_cnt = 0 /\ lo_cnt = 0 /\ ~tracking /\ ~ever_locked /\ none_cnt = 0
    /\ dev_from_lock_cnt = 0 /\ prev_rms_db = None
    /\ (force_clear_lock \/ (LOCK_INT = None /\ LOCK_CNT = 0 /\ ALT_INT = None))
    /\ recent_ints = << >> /\ recent_ints_cand = << >>
    /\ trk_x = None /\ trk_v = 0
    /\ last_hard_int = None /\ last_hard_state = None
    /\ noise_floor_rms = InitNoiseFloor
    /\ ~recent_none_flag
    /\ fast_relock_deadline = None
    /\ CURRENT_BPM = Some(ZeroDisplay) /\ bpm_update = Some(ZeroDisplay)

\* C16 as stated: 1.5 s never pass without audio samples (receive timeouts or
\* empty keep-alive buffers) unless the stall has been reported; the report is
\* the zeroed display with tracking cleared, and the loop goes on.
C16_StallAlwaysReported ==
  /\ obs.starved < StallMs
  /\ hop.kind = "stall" =>
       (CURRENT_BPM = Some(ZeroDisplay) /\ ~tracking /\ pc = "fill")

\* C17: when the frame queue is closed (every producer handle dropped) and
\* drained, the receive of the window loop observes the closure and the
\* analyzer loop terminates instead of looping on the closed queue.
C17_ClosedQueueEndsLoop ==
  [][(/\ ~tx_open /\ frames_q = << >>
      /\ pc = "fill" /\ window_len < target_len
      /\ no_data_ms' # no_data_ms)
     => pc' = "done"]_vars

\* C18: the capture side never blocks on the frame queue: a push is possible
\* whatever the queue holds, a push to a full queue of 16 buffers leaves the
\* queued buffers as they are and drops the pushed one, and the queue never
\* holds more than 16 buffers.
C18_PushNeverBlocks ==
  /\ [](Len(frames_q) <= QueueCap)
  /\ [](tx_open => ENABLED Push(BufLen))
  /\ [][(src'.produced # src.produced /\ Len(frames_q) = QueueCap)
        => frames_q' = frames_q]_vars

\* a buffer was pushed to a full queue and dropped
C18_Witness ==
  /\ Len(frames_q) = QueueCap
  /\ frames_q[QueueCap].first + frames_q[QueueCap].n - 1 < src.produced

\* the window: the newest window_len samples received since it was last emptied
Window ==
  LET s == Samples(heard)
  IN  SubSeq(s, Len(s) - window_len + 1, Len(s))

\* C19: nothing is reordered between producer and consumer: the samples in the
\* window are produced samples in production order, with only whole dropped
\* buffers missing between two neighbours; and the display slot always holds
\* the payload of the last bpm_update event, so slot and events show the
\* values in the order the hops produced them.
C19_NothingReordered ==
  /\ \A all \in {Samples(heard)} :
       /\ window_len <= Len(all)
       /\ \A w \in {SubSeq(all, Len(all) - window_len + 1, Len(all))} :
            /\ \A i \in 1..Len(w) : w[i] \in 1..src.produced
            /\ \A i \in 1..(Len(w) - 1) :
                 /\ w[i] < w[i + 1]
                 /\ w[i + 1] # w[i] + 1 =>
                      (w[i] % BufLen = 0 /\ w[i + 1] % BufLen = 1)
  /\ CURRENT_BPM = bpm_update

\* a hop has published from a window whose samples skip a dropped buffer
C19_Witness ==
  /\ pc = "top" /\ hop.kind = "silent"
  /\ IsSome(CURRENT_BPM)
  /\ \E w \in {Window} : \E i \in 1..(Len(w) - 1) : w[i + 1] > w[i] + 1

\* C20: when the source starts delivering audio at a sample rate different
\* from the one it last reported, it sends the new rate on the sample-rate
\* channel before it pushes any frame captured at that rate: every buffer
\* pushed carries the rate the source reported last.
C20_RateSentBeforeFrames ==
  [][Len(frames_q') > Len(frames_q)
     => frames_q'[Len(frames_q')].sr = src'.reported]_vars

\* C21: start_capture is idempotent: however many calls are made, in sequence
\* or at the same time, at most one analyzer thread is ever spawned, every call
\* returns Ok, and once every call has returned exactly one thread exists.
C21_OneAnalyzerThread ==
  /\ analyzers <= 1
  /\ (\A c \in 1..MaxCalls : call_pc[c] = "ok") => analyzers = 1

\* C22: every analysis step (silent, none or estimate hop) works on exactly
\* 2*SR samples, SR being the analyzer's current rate; no step runs while the
\* window holds fewer; and the step removes exactly SR/2 samples from the
\* front of the window.
C22_StepOnFullWindow ==
  [][HopStep =>
       /\ window_len >= 2 * sr_usize
       /\ hop'.frames = 2 * sr_usize
       /\ hop'.popped = sr_usize \div 2
       /\ window_len' = window_len - sr_usize \div 2
       /\ sr_usize' = sr_usize]_vars

\* an estimate hop has run on a window that held more than 2*SR samples, at a
\* rate other than the initial one
C22_Witness ==
  /\ pc = "top" /\ hop.kind = "estimate"
  /\ window_len + hop.popped > 2 * sr_usize
  /\ sr_usize # InitSampleRate

\* C23: integer lock update.  With n = round(disp) and d = |disp - n|, on an
\* estimate hop with confidence >= 0.80 and d <= 0.6 the lock count becomes the
\* count the rule found + 1 if n is the locked integer and otherwise 1 with
\* the lock set to n; it is raised to at least 2 when confidence >= 0.90 and
\* d <= 0.4; the display value is snapped to n exactly when the count is >= 2
\* after the update and is left as it was otherwise.
C23_LockUpdate ==
  (hop.kind = "estimate" /\ hop.conf >= 80
     /\ Abs(hop.norm - RoundBpm(hop.norm) * 10) <= 6) =>
    \A n \in {RoundBpm(hop.norm)} :
    \A d \in {Abs(hop.norm - n * 10)} :
    \A base \in {IF hop.lock_used = Some(n) THEN hop.cnt_used + 1 ELSE 1} :
      /\ LOCK_INT = Some(n)
      /\ LOCK_CNT = (IF hop.conf >= 90 /\ d <= 4 THEN Max(base, 2) ELSE base)
      /\ hop.locked = (IF LOCK_CNT >= 2 THEN n * 10 ELSE hop.norm)
      /\ hop.snapped = (LOCK_CNT >= 2)

\* a third hop in a row on the same integer, at confidence 0.84, has counted
\* up from 2 and snapped a value that was not an integer
C23_Witness ==
  /\ hop.kind = "estimate" /\ hop.conf >= 80 /\ hop.conf < 90
  /\ hop.lock_used = Some(RoundBpm(hop.norm)) /\ hop.cnt_used = 2
  /\ LOCK_CNT = 3
  /\ hop.locked # hop.norm

\* C24: while a lock on integer m exists, an estimate hop with confidence
\* >= 0.82 whose value lies more than 1.3 BPM from m increments unlock_count;
\* the lock on m is released when unlock_count reaches 3, and one or two such
\* hops leave the lock on m.
C24_UnlockAfterThree ==
  (/\ hop.kind = "estimate" /\ IsSome(hop.lock_used)
   /\ hop.conf >= 82
   /\ Abs(hop.norm - Get(hop.lock_used) * 10) > 13) =>
    IF hop.unlock_used + 1 >= 3
      THEN LOCK_INT = None
      ELSE LOCK_INT = hop.lock_used /\ UNLOCK_CNT = hop.unlock_used + 1

\* C25: adjacent-integer switch.  While a lock on m exists, an estimate hop
\* with confidence >= switch_conf (0.70 during fast relock, otherwise 0.82),
\* d <= 0.4 and n # m is counted for the candidate n; below switch_need (2
\* during fast relock, otherwise 3) the lock stays on m, and when the count
\* reaches switch_need the lock switches to n and the display is snapped to n.
C25_AdjacentSwitchCounts ==
  \A n \in {IF hop.kind = "estimate" THEN RoundBpm(hop.norm) ELSE 0} :
  (/\ hop.kind = "estimate" /\ IsSome(hop.lock_used)
   /\ hop.conf >= (IF hop.in_fast THEN 70 ELSE 82)
   /\ Abs(hop.norm - n * 10) <= 4
   /\ n # Get(hop.lock_used)) =>
    /\ ALT_INT = Some(n) /\ ALT_CNT >= 1
    /\ IF ALT_CNT >= (IF hop.in_fast THEN 2 ELSE 3)
         THEN LOCK_INT = Some(n) /\ hop.locked = n * 10
         ELSE LOCK_INT = hop.lock_used

\* a fast-relock trigger fired on the hop just taken
TriggerHop(h) ==
  h.kind = "estimate" /\ (h.rms_jump \/ h.none_recover \/ h.dev_trigger)

\* C26: anchor_bpm is assigned only on an estimate hop on which the tracking
\* flag is true, the effective confidence is >= 0.85 and the anchored value lies
\* in [60,160] (and, when an existing anchor is updated, within 8 % of it);
\* whenever set it lies in [60,160]; a consumed reset and a sample-rate change
\* leave it empty, and a fast-relock trigger discards the anchor it found, so
\* that after the trigger's hop the anchor is empty or is that hop's own value.
C26_AnchorGuarded ==
  [][/\ (anchor_bpm' # anchor_bpm /\ IsSome(anchor_bpm')) =>
          /\ HopStep /\ hop'.kind = "estimate"
          /\ tracking' /\ hop'.conf >= 85
          /\ hop'.disp >= 600 /\ hop'.disp <= 1600
          /\ (IsSome(anchor_bpm) /\ ~TriggerHop(hop')) =>
               Abs(hop'.disp - Get(anchor_bpm)) * 100 <= 8 * Get(anchor_bpm)
     /\ IsSome(anchor_bpm') => (Get(anchor_bpm') >= 600 /\ Get(anchor_bpm') <= 1600)
     /\ (hop' # hop /\ hop'.kind \in {"reset", "sr_change"}) => anchor_bpm' = None
     /\ (HopStep /\ TriggerHop(hop')) => anchor_bpm' \in {None, Some(hop'.disp)}
    ]_vars

\* a fast-relock trigger has emptied an anchor and the hop has anchored its own
\* value, which the old anchor would not have admitted
C26_Witness ==
  /\ pc = "top" /\ TriggerHop(hop)
  /\ anchor_bpm = Some(hop.disp)
  /\ tracking /\ hop.conf >= 85
  /\ IsSome(hop.anchor_before)
  /\ Abs(hop.disp - Get(hop.anchor_before)) * 100 > 8 * Get(hop.anchor_before)

\* C27: change detection.  Whenever the window loudness of an estimate hop
\* differs by >= 6 dB from that of the hop immediately before it (an estimate,
\* none or silent hop), the hop sets fast_relock_deadline = now + 2 s and
\* discards the anchor and the contents of stable_vals that it found.
C27_JumpAgainstPreviousHop ==
  (/\ pc = "top" /\ hop.kind = "estimate"
   /\ IsSome(hop.prev_hop_db)
   /\ Abs(hop.cur_db - Get(hop.prev_hop_db)) >= 6) =>
    /\ fast_relock_deadline = Some(now + FastRelockMs)
    /\ anchor_bpm \in {None, Some(hop.disp)}
    /\ Len(stable_vals) <= 1

\* C28: harmonic correction against the anchor returns one of raw, raw/2,
\* raw*2, raw*2/3, raw*3/2; a value other than raw is returned only if it lies
\* in [60,200] and its distance to the anchor plus 0.2 is below the distance of
\* raw (the first best) to the anchor, so the result is never farther from the
\* anchor than raw; with no anchor the result is raw.
C28_HarmonicCorrection ==
  hop.kind = "estimate" =>
    \A raw \in {hop.raw}, c \in {hop.corrected} :
      /\ c \in {raw, raw \div 2, raw * 2, (raw * 2) \div 3, (raw * 3) \div 2}
      /\ IsNone(hop.anchor_in) => c = raw
      /\ (IsSome(hop.anchor_in) /\ c # raw) =>
           /\ c >= 600 /\ c <= 2000
           /\ Abs(c - Get(hop.anchor_in)) + 2 < Abs(raw - Get(hop.anchor_in))

\* a raw tempo near twice the anchor has been halved
C28_Witness ==
  /\ hop.kind = "estimate" /\ IsSome(hop.anchor_in)
  /\ hop.raw > 1800
  /\ hop.corrected = hop.raw \div 2
  /\ hop.corrected # hop.raw

\* C29: a value published on a hop that only the majority gate admitted
\* (neither the hard nor the soft gate) carries the state uncertain, never
\* tracking or analyzing.
C29_MajorityIsUncertain ==
  (hop.kind = "estimate" /\ hop.allow_major /\ ~hop.allow_hard /\ ~hop.allow_soft) =>
    /\ IsSome(hop.published)
    /\ Get(hop.published).state = "uncertain"

\* C30: the second majority check replaces only the published bpm value by
\* the mode; the published state stays the one the admitting gate chose, so a
\* value admitted by the hard gate is published with the current global state
\* (tracking while tracking) also when the value is overridden.
C30_OverrideKeepsState ==
  (hop.kind = "estimate" /\ hop.allow_hard /\ IsSome(hop.published)) =>
    Get(hop.published).state = hop.state

\* C30 (as the code has it): the second majority check replaces the published
\* bpm by a mode of the candidates of the last 1.5 s, different from the integer
\* displayed before, and replaces the published state by uncertain, whichever
\* gate admitted the value; without an override the published bpm is the gated
\* display value and a hard-gate publish carries the current global state.
\* Confidence and level are those of the hop either way.
C30_OverrideIsUncertain ==
  (hop.kind = "estimate" /\ IsSome(hop.published)) =>
    LET p == Get(hop.published)
    IN /\ hop.override =>
            /\ p.state = "uncertain"
            /\ RoundBpm(p.bpm) # PrevInt(hop.prev, hop.disp)
            /\ Len(recent_ints_cand) > 0 =>
                 \E k \in Modes(recent_ints_cand) : p.bpm = k * 10
       /\ ~hop.override =>
            /\ p.bpm = hop.disp
            /\ hop.allow_hard => p.state = hop.state
       /\ p.confidence = hop.conf
       /\ p.level = hop.level

\* the hard gate has admitted a value while tracking and the second majority
\* check has replaced it: another bpm is published, as uncertain
C30_Witness ==
  /\ hop.kind = "estimate"
  /\ hop.allow_hard
  /\ hop.state = "tracking"
  /\ hop.override
  /\ IsSome(hop.published)
  /\ Get(hop.published).bpm # hop.disp
  /\ Get(hop.published).state = "uncertain"


\* C31: an estimate hop on which none of the hard, soft and majority gates
\* admits leaves the display slot as it was, emits no bpm_update, and leaves
\* recent_ints, last_hard_int and last_hard_state unchanged.
C31_NoGateNoPublish ==
  [][(/\ count'.hops = count.hops + 1
      /\ hop'.kind = "estimate"
      /\ ~hop'.allow_hard /\ ~hop'.allow_soft /\ ~hop'.allow_major)
       => /\ UNCHANGED << CURRENT_BPM, bpm_update >>
          /\ UNCHANGED << recent_ints, last_hard_int, last_hard_state >>
          /\ IsNone(hop'.published)]_vars

\* an estimate hop that no gate admitted, made while a tempo was on display
C31_Witness ==
  /\ hop.kind = "estimate"
  /\ ~hop.allow_hard /\ ~hop.allow_soft /\ ~hop.allow_major
  /\ IsNone(hop.published)
  /\ IsSome(hop.prev) /\ Get(hop.prev).bpm > 0
  /\ CURRENT_BPM = hop.prev
  /\ IsSome(last_hard_int)
  /\ Len(recent_ints) > 0


\* C32: after reset_backend has returned, the analyzer publishes no non-zero
\* BPM computed from the state before the reset: while the reset flag is still
\* raised, an analysis hop that was in progress leaves a zero tempo in the
\* display slot.
C32_NoTempoAfterReset ==
  [][(RESET_REQUESTED /\ count'.hops = count.hops + 1 /\ IsSome(CURRENT_BPM'))
       => Get(CURRENT_BPM').bpm = 0]_vars


\* the capture rate of each sample of a sequence of buffers
RECURSIVE Rates(_)
Rates(bufs) ==
  IF bufs = << >> THEN << >>
  ELSE [i \in 1..Head(bufs).n |-> Head(bufs).sr] \o Rates(Tail(bufs))

\* C33: every window handed to the estimator contains only samples captured at
\* the analyzer's current sample rate: after a hop that called the estimator,
\* each of the frames it analysed was captured at sr_usize.
C33_WindowAtOneRate ==
  (pc = "top" /\ hop.kind = "estimate" /\ hop.estimator_called) =>
    \A all \in {Rates(heard)} :
      \A first \in {Len(all) - window_len - hop.popped + 1} :
        \A i \in first..(first + hop.frames - 1) : all[i] = sr_usize


C35_EnvelopeContiguous ==
  /\ Len(backend.buf) <= max_len
  /\ \A i \in 1..(Len(backend.buf) - 1) : backend.buf[i] < backend.buf[i + 1]


\* the short candidate s is preferred to the long candidate l when, before it,
\* the short candidate was p (or there was none)
PreferShort(l, s, p) ==
  /\ 100 * Abs(s.bpm - l.bpm) > 6 * l.bpm
  /\ 100 * s.confidence >= 75 * l.confidence
  /\ IsSome(p)
  /\ 100 * Abs(s.bpm - Get(p).bpm) <= 3 * s.bpm

C37_WindowNeverUltraShort ==
  (hop.kind = "process" /\ IsSome(hop.result)) =>
    \A w \in {Get(hop.result).est.win_sec} :
      /\ w >= 16
      /\ ThrHi(w) = HiTh /\ ThrLo(w) = LoTh

\* an estimate has been returned from a slice that lost samples as silence and
\* whose crop was too short to be used
C37_Witness ==
  /\ hop.kind = "process"
  /\ IsSome(hop.result)
  /\ Get(hop.result).est.win_sec > 16
  /\ Len(backend.buf) = max_len


\* C38: the published display value is a deterministic function of the
\* stabilizer state and the hop's inputs, also when two integers tie for the
\* highest count in a majority vote: whichever of the tied integers the walks
\* over the counts end on, the hop publishes the same bpm, or nothing.
C38_PublishIsDeterministic ==
  [][(count'.hops = count.hops + 1 /\ hop'.kind = "estimate") =>
       \A kM \in Modes(RecentTail(recent_ints_cand', now, 1200)),
          kP \in Modes(RecentTail(recent_ints_cand', now, 1500)) :
         (IF Admitted(hop'.allow_hard, hop'.allow_soft,
                      MajorGate(kM, recent_ints_cand', hop'.disp, hop'.in_fast,
                                hop'.allow_hard, hop'.allow_soft, CURRENT_BPM, now))
            THEN Some(Payload(kP, recent_ints_cand', hop'.disp, hop'.conf,
                              hop'.state, hop'.level, hop'.in_fast, CURRENT_BPM,
                              now).bpm)
            ELSE None)
         = (IF IsSome(hop'.published) THEN Some(Get(hop'.published).bpm)
            ELSE None)]_vars


\* C39: an update replaces an established stable key S by a different key K
\* only when K has been the raw key of at least switch_wins (mode_switch_wins
\* when K has the Camelot number of S) counted updates in a row up to this one,
\* and this update's confidence and gap meet the thresholds of that switch;
\* otherwise S stays the stable key until the hold time has expired.
C39_StableKeySwitch ==
  (hop.kind = "key_update" /\ IsSome(hop.stable_before)) =>
    LET S == Get(hop.stable_before)
        same_num == same_camelot_number(S.key, hop.raw.key)
    IN  /\ (IsSome(key_tracker.stable) /\ Get(key_tracker.stable).key # S.key) =>
             /\ Get(key_tracker.stable).key = hop.raw.key
             /\ obs.key_run.key = hop.raw.key
             /\ obs.key_run.n >= (IF same_num THEN mode_switch_wins
                                   ELSE switch_wins)
             /\ hop.raw.confidence >= (IF same_num THEN mode_switch_conf_min
                                        ELSE switch_conf_min)
             /\ hop.raw.gap >= (IF same_num THEN mode_switch_gap_min
                                 ELSE switch_gap_min)
        /\ IsNone(key_tracker.stable) =>
             hop.now_ms - S.last_confirm_ms > hold_ms

\* a stable key has been replaced by the other key of its Camelot number
C39_Witness ==
  /\ hop.kind = "key_update"
  /\ IsSome(hop.stable_before) /\ IsSome(key_tracker.stable)
  /\ Get(key_tracker.stable).key # Get(hop.stable_before).key
  /\ same_camelot_number(Get(key_tracker.stable).key, Get(hop.stable_before).key)

\* C40: the key tracker answers with the N/A key and state atonal only when the
\* raw estimate is itself atonal or N/A: an update whose raw estimate names a
\* key, with state uncertain or tracking, is never answered so.
C40_AtonalOnlyForAtonalRaw ==
  (/\ hop.kind = "key_update"
   /\ hop.raw.key # NA_KEY
   /\ hop.raw.state \in {"uncertain", "tracking"}) =>
     ~(hop.decision.key = NA_KEY /\ hop.decision.state = "atonal")

====
